---- MODULE Spec2Model ----
(***************************************************************************)
(* Booking transitions, occupancy reconciliation and rent-payment          *)
(* generation of the PG booking backend (src/index.js), as a state machine *)
(* over the three collections Booking, Pg and Payment.                     *)
(*                                                                         *)
(* One action per request handler.  A handler runs to completion in one    *)
(* step (requests handled one at a time).  A document is written only      *)
(* where the handler calls save(): a handler that returns or throws before *)
(* booking.save() leaves the stored booking as it was, but keeps whatever  *)
(* it had already saved to Pg and Payment.                                 *)
(*                                                                         *)
(* Not modelled: the fields of a document no handler of this module reads  *)
(* (names, room numbers, the stored checkInDate, paidDate, ...).           *)
(***************************************************************************)
EXTENDS Integers, Sequences, FiniteSets, Bags, TLC

(* ------------------------------ bounds --------------------------------- *)
MaxBeds == 1        \* largest totalBeds of a Pg
MaxPeriod == 2      \* calendar months the clock runs through

(* ------------------------- program constants --------------------------- *)
DueInDays == 5      \* dueDate.setDate(dueDate.getDate() + 5)
DaysPerMonth == 30  \* days the clock moves to reach the next calendar month
RentAmount == 700   \* a rentAmount stored on a booking
PgPrice == 500      \* the list price of a Pg

(* ------------------------------ universe ------------------------------- *)
BookingIds == {"b1", "b2"}          \* Booking _id
PgIds == {"pg1", "pg2"}             \* Pg id
NoSuchBooking == "b0"               \* an _id no Booking document has

\* booking.userId of each booking: one tenant per booking.
UserOf(b) == IF b = "b1" THEN "u1" ELSE "u2"
UserIds == {UserOf(b) : b \in BookingIds}

Statuses == {"Pending", "Confirmed", "Rejected", "CheckedOut", "Canceled"}
Released == {"Canceled", "Rejected", "CheckedOut"}

\* req.body.status: one of the enum, a string outside it, or not sent.
NoStatus == "undefined"
BogusStatus == "Approved"
RequestStatuses == Statuses \cup {NoStatus, BogusStatus}

\* req.body.checkInDate: not sent, a date, or a string that does not cast to Date.
NoDate == "undefined"
GoodDate == "2025-12-01"
BadDate == "not-a-date"
RequestDates == {NoDate, GoodDate, BadDate}

\* booking.rentAmount when the document has no such field.
NoRent == -1

\* req.user: the document protect() loaded.
AdminUser == [role |-> "admin", id |-> "admin-1"]
CaretakerUser == [role |-> "caretaker", id |-> "caretaker-1"]
Tenant(u) == [role |-> "user", id |-> u]
Principals == {Tenant(u) : u \in UserIds} \cup {AdminUser, CaretakerUser}

VARIABLES
    bookings,   \* Booking collection: _id -> document
    pgs,        \* Pg collection: id -> document
    payments,   \* Payment collection: a bag of documents (two documents may agree on every field)
    now,        \* the clock new Date() reads, in days
    response,   \* the response to the request handled last
    emitted,    \* io.emit(..) calls of the request handled last, in order
    roundTrip,  \* progress of a confirm / cancel / re-confirm sequence (SpecRoundTrip only)
    confirmedIn,\* the (booking, month) pairs confirmed in the current month (SpecFirstConfirm only)
    inflight,   \* the requests being handled, each between two awaits (SpecConcurrent only)
    entryLogs,  \* EntryLog collection, in the order of createdAt (SpecGate only)
    sockets     \* the socket.io clients: connected or not, and what the last request sent them (SpecNotifier only)

data == <<bookings, pgs, payments>>
monitors == <<roundTrip, confirmedIn, inflight, entryLogs, sockets>>
vars == <<bookings, pgs, payments, now, response, emitted, roundTrip, confirmedIn, inflight,
          entryLogs, sockets>>

(* ------------------------------ helpers -------------------------------- *)

\* new Date().toLocaleString('default', { month: 'long', year: 'numeric' })
MonthLabel(t) == t \div DaysPerMonth

\* dueDate = new Date(); dueDate.setDate(dueDate.getDate() + 5)
DueDate(t) == t + DueInDays

\* JavaScript truthiness of a rentAmount (undefined and 0 are falsy).
Truthy(n) == n # NoRent /\ n # 0

\* Variant: no existence check before a Payment is inserted.
PaymentExistsNever(pays, bookingId, month) == FALSE

\* Payment.findOne({ bookingId, month }) finds a document.
PaymentExists(pays, bookingId, month) ==
    \E p \in BagToSet(pays) : p.bookingId = bookingId /\ p.month = month

\* Number of Payment documents of a (booking, period) pair.
PaymentCount(pays, bookingId, month) ==
    LET S == {p \in BagToSet(pays) : p.bookingId = bookingId /\ p.month = month}
        RECURSIVE Sum(_)
        Sum(T) == IF T = {} THEN 0
                  ELSE LET p == CHOOSE q \in T : TRUE
                       IN  CopiesIn(p, pays) + Sum(T \ {p})
    IN  Sum(S)

\* Booking.countDocuments({ pgId, status: 'Confirmed' })
ConfirmedCount(bks, pgId) ==
    Cardinality({b \in DOMAIN bks : bks[b].pgId = pgId /\ bks[b].status = "Confirmed"})

\* new Payment({...}) as the three creating handlers fill it.
NewPayment(bookingId, booking, amount, t) ==
    [userId    |-> booking.userId,
     bookingId |-> bookingId,
     pgId      |-> booking.pgId,
     amount    |-> amount,
     dueDate   |-> DueDate(t),
     month     |-> MonthLabel(t),
     status    |-> "Pending"]

\* paymentSchema: amount is required (the other required paths are always set).
PaymentValid(p) == p.amount # NoRent

\* Variant: a schema whose status is any string.
BookingValidAnyStatus(status, checkInDate) == checkInDate # BadDate

\* bookingSchema: status must be in the enum, checkInDate must cast to Date.
BookingValid(status, checkInDate) ==
    status \in Statuses /\ checkInDate # BadDate

\* A response: the route that answered, status code, message, JSON body, Date header.
Res(route, code, message, body) ==
    [route |-> route, code |-> code, message |-> message, body |-> body, date |-> now]

PutBooking == "PUT /api/bookings/:id"
GetFixOccupancy == "GET /api/admin/fix-occupancy"
PostGenerate == "POST /api/payments/generate"
PostRemind == "POST /api/payments/remind"

PgUpdated(pgId, pg) == [event |-> "pgUpdated", id |-> pgId, occupiedBeds |-> pg.occupiedBeds]

\* Variant: a notification that carries the status of a new document
\* instead of the saved one.
BookingUpdatedBeforeSave(id, status) == [event |-> "bookingUpdated", id |-> id, status |-> "Pending"]

BookingUpdated(id, status) == [event |-> "bookingUpdated", id |-> id, status |-> status]

PaymentCreated(p) == [event |-> "paymentCreated", id |-> p.bookingId, month |-> p.month]
PaymentUpdated(p) == [event |-> "paymentUpdated", id |-> p.bookingId, month |-> p.month]
PaymentReminder(p) == [event |-> "paymentReminder", id |-> p.bookingId, month |-> p.month]

\* The documents a find() without sort returns: those of S, in the order
\* they were inserted.
BookingOrder == <<"b1", "b2">>
PgOrder == <<"pg1", "pg2">>
Found(order, S) == SelectSeq(order, LAMBDA x : x \in S)

(* ------------------------------- Init ---------------------------------- *)

Idle == [stage |-> 0, id |-> NoSuchBooking, occupiedBeds |-> 0]

\* The clients that may connect to the notifier; none connected at the start.
SocketIds == {"s1", "s2"}
NoSockets == [s \in SocketIds |-> [connected |-> FALSE, received |-> <<>>]]

\* No request is being handled.
NoRequest == <<>>

\* Every booking Pending, every Pg empty, no payment yet; rentAmount of a
\* booking drawn from rents, totalBeds of a Pg from beds.
InitFrom(rents, beds) ==
    /\ bookings \in [BookingIds -> [userId : UserIds, pgId : PgIds, status : {"Pending"},
                                    rentAmount : rents]]
    /\ \A b \in BookingIds : bookings[b].userId = UserOf(b)
    /\ bookings["b1"].pgId = "pg1"     \* Pg ids are interchangeable
    /\ pgs \in [PgIds -> [totalBeds : beds, occupiedBeds : {0}, price : {PgPrice}]]
    /\ payments = EmptyBag
    /\ now = 0
    /\ response = [route |-> "", code |-> 0, message |-> "", body |-> <<>>, date |-> 0]
    /\ emitted = <<>>
    /\ roundTrip = Idle
    /\ confirmedIn = {}
    /\ inflight = NoRequest
    /\ entryLogs = <<>>
    /\ sockets = NoSockets

Init == InitFrom({RentAmount}, 1..MaxBeds)

(* ---------------------- PUT /api/bookings/:id -------------------------- *)

\* Variant: the confirm branch without the guard on the old status.
ConfirmBranchAnyOld(newStatus, oldStatus) == newStatus = "Confirmed"

\* if (newStatus === 'Confirmed' && oldStatus !== 'Confirmed')
ConfirmBranch(newStatus, oldStatus) == newStatus = "Confirmed" /\ oldStatus # "Confirmed"

\* Variant: the release branch taken whatever the old status.
ReleaseBranchAnyOld(newStatus, oldStatus) == newStatus \in Released

\* else if ((newStatus === 'Canceled' || ... 'Rejected' || ... 'CheckedOut') && oldStatus === 'Confirmed')
ReleaseBranch(newStatus, oldStatus) == newStatus \in Released /\ oldStatus = "Confirmed"

\* Variant: the capacity check with > in place of >=.
IsFullStrict(pg) == pg.occupiedBeds > pg.totalBeds

\* if (pg.occupiedBeds >= pg.totalBeds) return 400 'PG is full'
IsFull(pg) == pg.occupiedBeds >= pg.totalBeds

\* Variant: a confirmation that does not count the bed.
OccupyNothing(pg) == pg

\* pg.occupiedBeds += 1
Occupy(pg) == [pg EXCEPT !.occupiedBeds = @ + 1]

\* Variant: a release without the floor at zero.
HasOccupantAlways(pg) == TRUE

\* if (pg && pg.occupiedBeds > 0)
HasOccupant(pg) == pg.occupiedBeds > 0

\* Variant: a release that does not free the bed.
VacateNothing(pg) == pg

\* pg.occupiedBeds -= 1
Vacate(pg) == [pg EXCEPT !.occupiedBeds = @ - 1]

\* Variant: the amount without the fallback to the list price.
ConfirmAmountRentOnly(booking, pg) == booking.rentAmount

\* amount: booking.rentAmount || pg.price
ConfirmAmount(booking, pg) ==
    IF Truthy(booking.rentAmount) THEN booking.rentAmount ELSE pg.price

\* The occupiedBeds / Payment part of the handler: the confirm branch, the
\* release branch, or neither.  Yields what was saved before booking.save().
\*   full      the handler returned 400 'PG is full'
\*   pgs, payments, emitted   the collections and emits after the branch
OccupancyStep(id, booking, newStatus, oldStatus) ==
    LET pgId == booking.pgId
        pgFound == pgId \in DOMAIN pgs
        same == [full |-> FALSE, pgs |-> pgs, payments |-> payments, emitted |-> <<>>]
    IN
    IF ConfirmBranch(newStatus, oldStatus) THEN
        IF ~pgFound THEN same
        ELSE IF IsFull(pgs[pgId]) THEN [same EXCEPT !.full = TRUE]
        ELSE
            LET pg2 == Occupy(pgs[pgId])
                newPayment == NewPayment(id, booking, ConfirmAmount(booking, pg2), now)
            IN
            IF PaymentExists(payments, id, MonthLabel(now)) THEN
                [full |-> FALSE, pgs |-> [pgs EXCEPT ![pgId] = pg2], payments |-> payments,
                 emitted |-> <<PgUpdated(pgId, pg2)>>]
            ELSE
                [full |-> FALSE, pgs |-> [pgs EXCEPT ![pgId] = pg2],
                 payments |-> payments (+) SetToBag({newPayment}),
                 emitted |-> <<PgUpdated(pgId, pg2), PaymentCreated(newPayment)>>]
    ELSE IF ReleaseBranch(newStatus, oldStatus) THEN
        IF pgFound /\ HasOccupant(pgs[pgId]) THEN
            LET pg2 == Vacate(pgs[pgId])
            IN  [full |-> FALSE, pgs |-> [pgs EXCEPT ![pgId] = pg2], payments |-> payments,
                 emitted |-> <<PgUpdated(pgId, pg2)>>]
        ELSE same
    ELSE same

\* Variant: the permission check skipped for every role.
IsStaffAnyone(user) == TRUE

\* !(req.user.role !== 'admin' && req.user.role !== 'caretaker')
IsStaff(user) == user.role = "admin" \/ user.role = "caretaker"

\* The permission check lets the request through.
Permitted(id, newStatus, user) ==
    \/ IsStaff(user)
    \/ bookings[id].userId = user.id /\ newStatus = "Canceled"

\* Variant: a request for a missing booking answered as a success.
BookingNotFoundAnswersOk == Res(PutBooking, 200, "", <<>>)

\* if (!booking) return res.status(404).json({ message: 'Booking not found' })
BookingNotFound == Res(PutBooking, 404, "Booking not found", <<>>)

TransitionBooking(id, newStatus, checkInDate, user) ==
    IF id \notin DOMAIN bookings THEN
        /\ response' = BookingNotFound
        /\ emitted' = <<>>
        /\ UNCHANGED <<bookings, pgs, payments, now>>
    ELSE IF ~IsStaff(user) /\ bookings[id].userId # user.id THEN
        /\ response' = Res(PutBooking, 403, "Not authorized", <<>>)
        /\ emitted' = <<>>
        /\ UNCHANGED <<bookings, pgs, payments, now>>
    ELSE IF ~IsStaff(user) /\ newStatus # "Canceled" THEN
        /\ response' = Res(PutBooking, 403, "Users can only cancel bookings", <<>>)
        /\ emitted' = <<>>
        /\ UNCHANGED <<bookings, pgs, payments, now>>
    ELSE
        LET booking == bookings[id]
            oldStatus == booking.status
            status2 == IF newStatus = NoStatus THEN booking.status ELSE newStatus
            step == OccupancyStep(id, booking, newStatus, oldStatus)
        IN
        IF step.full THEN
            /\ response' = Res(PutBooking, 400, "PG is full. Cannot confirm booking.", <<>>)
            /\ emitted' = <<>>
            /\ UNCHANGED <<bookings, pgs, payments, now>>
        ELSE IF ~BookingValid(status2, checkInDate) THEN
            \* booking.save() throws: what the branch saved stays saved.
            /\ pgs' = step.pgs
            /\ payments' = step.payments
            /\ emitted' = step.emitted
            /\ response' = Res(PutBooking, 400, "Booking validation failed", <<>>)
            /\ UNCHANGED <<bookings, now>>
        ELSE
            /\ pgs' = step.pgs
            /\ payments' = step.payments
            /\ bookings' = [bookings EXCEPT ![id].status = status2]
            /\ emitted' = Append(step.emitted, BookingUpdated(id, status2))
            /\ response' = Res(PutBooking, 200, "", <<BookingUpdated(id, status2)>>)
            /\ UNCHANGED now

(* ------------------ GET /api/admin/fix-occupancy ----------------------- *)

\* Variant: a sweep that writes nothing.
recalculateNothing(ps, bks) == ps

\* Variant: a sweep that writes the distance between the stored value and
\* the count in place of the count.
recalculateByDifference(ps, bks) ==
    [p \in DOMAIN ps |->
        IF ps[p].occupiedBeds > ConfirmedCount(bks, p)
        THEN [ps[p] EXCEPT !.occupiedBeds = @ - ConfirmedCount(bks, p)]
        ELSE [ps[p] EXCEPT !.occupiedBeds = ConfirmedCount(bks, p) - @]]

\* Variant: a sweep that only ever raises a stored count.
recalculateOnlyRaises(ps, bks) ==
    [p \in DOMAIN ps |->
        IF ps[p].occupiedBeds < ConfirmedCount(bks, p)
        THEN [ps[p] EXCEPT !.occupiedBeds = ConfirmedCount(bks, p)]
        ELSE ps[p]]

\* recalculateOccupancy: every Pg gets the count of its Confirmed bookings.
recalculateOccupancy(ps, bks) ==
    [p \in DOMAIN ps |->
        IF ps[p].occupiedBeds # ConfirmedCount(bks, p)
        THEN [ps[p] EXCEPT !.occupiedBeds = ConfirmedCount(bks, p)]
        ELSE ps[p]]

\* pgs.forEach(pg => io.emit('pgUpdated', pg))
EmitAllPgs(ps) ==
    LET order == Found(PgOrder, DOMAIN ps)
    IN  [i \in 1..Len(order) |-> PgUpdated(order[i], ps[order[i]])]

FixOccupancy ==
    /\ pgs' = recalculateOccupancy(pgs, bookings)
    /\ emitted' = EmitAllPgs(pgs')
    /\ response' = Res(GetFixOccupancy, 200, "Occupancy recalculated and synced", <<>>)
    /\ UNCHANGED <<bookings, payments, now>>

(* ------------------- POST /api/payments/generate ----------------------- *)

\* for (const booking of bookings) { ... }: a payment for every listed booking
\* that has none this month, amount booking.rentAmount; payment.save() throws
\* on a document without amount and ends the loop.
RECURSIVE GenerateLoop(_, _, _)
GenerateLoop(order, pays, created) ==
    IF order = <<>> THEN [payments |-> pays, created |-> created, threw |-> FALSE]
    ELSE
        LET id == Head(order)
            payment == NewPayment(id, bookings[id], bookings[id].rentAmount, now)
        IN
        IF PaymentExists(pays, id, MonthLabel(now)) THEN
            GenerateLoop(Tail(order), pays, created)
        ELSE IF ~PaymentValid(payment) THEN
            [payments |-> pays, created |-> created, threw |-> TRUE]
        ELSE
            GenerateLoop(Tail(order), pays (+) SetToBag({payment}), Append(created, payment))

\* Booking.find({ status: 'Confirmed' })
ConfirmedBookings == {b \in DOMAIN bookings : bookings[b].status = "Confirmed"}

GeneratePayments(user) ==
    IF user.role # "admin" THEN
        /\ response' = Res(PostGenerate, 401, "Not authorized as an admin", <<>>)
        /\ emitted' = <<>>
        /\ UNCHANGED <<bookings, pgs, payments, now>>
    ELSE
        LET run == GenerateLoop(Found(BookingOrder, ConfirmedBookings), payments, <<>>)
        IN      /\ payments' = run.payments
                /\ IF run.threw
                   THEN /\ response' = Res(PostGenerate, 500, "Payment validation failed", <<>>)
                        /\ emitted' = <<>>
                   ELSE /\ response' = Res(PostGenerate, 200, "Generated rent requests", run.created)
                        /\ emitted' = [i \in 1..Len(run.created) |-> PaymentCreated(run.created[i])]
                /\ UNCHANGED <<bookings, pgs, now>>

(* -------------------- POST /api/payments/remind ------------------------ *)

\* The loop of the reminder: a payment is created for a listed booking that
\* has none this month, and every listed booking is reminded.
RECURSIVE RemindLoop(_, _, _)
RemindLoop(order, pays, out) ==
    IF order = <<>> THEN [payments |-> pays, emitted |-> out, threw |-> FALSE]
    ELSE
        LET id == Head(order)
            payment == NewPayment(id, bookings[id], bookings[id].rentAmount, now)
        IN
        IF PaymentExists(pays, id, MonthLabel(now)) THEN
            RemindLoop(Tail(order), pays,
                       out \o <<PaymentUpdated(payment), PaymentReminder(payment)>>)
        ELSE IF ~PaymentValid(payment) THEN
            [payments |-> pays, emitted |-> out, threw |-> TRUE]
        ELSE
            RemindLoop(Tail(order), pays (+) SetToBag({payment}),
                       out \o <<PaymentCreated(payment), PaymentReminder(payment)>>)

\* The bookings the reminder is for: of a user, of a Pg, or all (Confirmed only).
RemindTargets(type, id) ==
    IF type = "user" THEN {b \in ConfirmedBookings : bookings[b].userId = id}
    ELSE IF type = "room" THEN {b \in ConfirmedBookings : bookings[b].pgId = id}
    ELSE IF type = "all" THEN ConfirmedBookings
    ELSE {}

RemindPayments(type, id, user) ==
    IF user.role # "admin" /\ user.role # "caretaker" THEN
        /\ response' = Res(PostRemind, 403, "Not authorized", <<>>)
        /\ emitted' = <<>>
        /\ UNCHANGED <<bookings, pgs, payments, now>>
    ELSE
        LET order == Found(BookingOrder, RemindTargets(type, id))
            run == RemindLoop(order, payments, <<>>)
        IN      /\ payments' = run.payments
                /\ emitted' = run.emitted
                /\ response' = IF run.threw
                               THEN Res(PostRemind, 500, "Payment validation failed", <<>>)
                               ELSE Res(PostRemind, 200, "Sent reminders",
                                        <<[remindersSent |-> Len(order)]>>)
                /\ UNCHANGED <<bookings, pgs, now>>

(* ------------------------------ clock ---------------------------------- *)

\* Time passes into the next calendar month.
Tick ==
    /\ MonthLabel(now) + 1 < MaxPeriod
    /\ now' = now + DaysPerMonth
    /\ UNCHANGED <<bookings, pgs, payments, response, emitted>>

(* --------------------------- specifications ---------------------------- *)

\* Every request to PUT /api/bookings/:id.  A field of the body the handler
\* returns before reading is left out of the request: the status when the
\* booking is not found or is another tenant's, the checkInDate when the
\* permission check refuses the request.
AnyTransition ==
    \E id \in BookingIds \cup {NoSuchBooking}, u \in Principals :
        \E s \in IF id \in DOMAIN bookings /\ (u.role # "user" \/ bookings[id].userId = u.id)
                 THEN RequestStatuses ELSE {NoStatus} :
            \E d \in IF id \in DOMAIN bookings /\ Permitted(id, s, u)
                     THEN RequestDates ELSE {NoDate} :
                TransitionBooking(id, s, d, u)

\* Booking transitions and reconciliation sweeps, one at a time.
Next ==
    \/ AnyTransition /\ UNCHANGED monitors
    \/ FixOccupancy /\ UNCHANGED monitors

Spec == Init /\ [][Next]_vars

\* Bookings with and without a rentAmount, each in a Pg of its own with
\* MaxBeds beds.
InitPayments ==
    /\ InitFrom({NoRent, RentAmount}, {MaxBeds})
    /\ bookings["b2"].pgId = "pg2"

AnyGenerate == \E u \in Principals : GeneratePayments(u)

\* Every request to POST /api/payments/remind: for a user, for a Pg, or for
\* all; the body is left out of a request the role check refuses.
RemindRequests ==
    {<<"user", u>> : u \in UserIds} \cup {<<"room", p>> : p \in PgIds} \cup {<<"all", "">>}

AnyRemind ==
    \E u \in Principals :
        \E r \in IF u.role \in {"admin", "caretaker"} THEN RemindRequests ELSE {<<"all", "">>} :
            RemindPayments(r[1], r[2], u)

\* Booking transitions, bulk generations and reminders, one at a time, while
\* the months pass.
NextPayments ==
    \/ AnyTransition /\ UNCHANGED monitors
    \/ AnyGenerate /\ UNCHANGED monitors
    \/ AnyRemind /\ UNCHANGED monitors
    \/ Tick /\ UNCHANGED monitors

SpecPayments == InitPayments /\ [][NextPayments]_vars

\* Any statuses, every Pg's occupiedBeds equal to the count of its Confirmed bookings.
InitConsistent ==
    /\ bookings \in [BookingIds -> [userId : UserIds, pgId : PgIds, status : Statuses,
                                    rentAmount : {RentAmount}]]
    /\ \A b \in BookingIds : bookings[b].userId = UserOf(b)
    /\ bookings["b1"].pgId = "pg1"
    /\ pgs \in [PgIds -> [totalBeds : 1..MaxBeds, occupiedBeds : 0..MaxBeds, price : {PgPrice}]]
    /\ \A p \in PgIds : /\ pgs[p].occupiedBeds = ConfirmedCount(bookings, p)
                        /\ pgs[p].occupiedBeds <= pgs[p].totalBeds
    /\ payments = EmptyBag
    /\ now = 0
    /\ response = [route |-> "", code |-> 0, message |-> "", body |-> <<>>, date |-> 0]
    /\ emitted = <<>>
    /\ roundTrip = Idle
    /\ confirmedIn = {}
    /\ inflight = NoRequest
    /\ entryLogs = <<>>
    /\ sockets = NoSockets

\* Booking transitions only, each with a well-formed body: one of the five
\* statuses, and no checkInDate or one that casts to Date.
NextTransitions ==
    /\ \E id \in BookingIds, s \in Statuses, d \in {NoDate, GoodDate}, u \in Principals :
          TransitionBooking(id, s, d, u)
    /\ UNCHANGED monitors

SpecTransitions == InitConsistent /\ [][NextTransitions]_vars

(* ======================= occupancy: C1 .. C7 ========================== *)

PgOf(id) == bookings[id].pgId
PgFull == "PG is full. Cannot confirm booking."

\* C1: after any sequence of booking transitions and reconciliation sweeps
\* from the all-Pending, all-empty start, every Pg has
\* 0 <= occupiedBeds <= totalBeds.
OccupancyWithinCapacity ==
    \A p \in DOMAIN pgs : 0 <= pgs[p].occupiedBeds /\ pgs[p].occupiedBeds <= pgs[p].totalBeds

\* C2: starting with occupiedBeds equal to the Confirmed count, after any
\* sequence of booking transitions every Pg's occupiedBeds equals the number
\* of its Confirmed bookings.
OccupancyMatchesConfirmed ==
    \A p \in DOMAIN pgs : pgs[p].occupiedBeds = ConfirmedCount(bookings, p)

\* C3: the number of Confirmed bookings of a Pg never exceeds its totalBeds.
NoOverBooking ==
    \A p \in DOMAIN pgs : ConfirmedCount(bookings, p) <= pgs[p].totalBeds

\* C4: a permitted request to confirm a booking that is not Confirmed, against
\* a full Pg, is answered 400 'PG is full' and changes no Pg, no stored
\* booking and no payment.
ConfirmOnFullPgConflicts ==
    [][\A id \in BookingIds, d \in RequestDates, u \in Principals :
          ( /\ bookings[id].status # "Confirmed"
            /\ Permitted(id, "Confirmed", u)
            /\ PgOf(id) \in DOMAIN pgs
            /\ pgs[PgOf(id)].occupiedBeds >= pgs[PgOf(id)].totalBeds
            /\ TransitionBooking(id, "Confirmed", d, u) )
          => ( /\ response'.code = 400
               /\ response'.message = PgFull
               /\ pgs' = pgs
               /\ bookings' = bookings
               /\ payments' = payments )]_vars

\* C4 witness: a confirmation was just refused on a full Pg and the booking
\* it named is still not Confirmed.
ConflictAnswered ==
    /\ response.route = PutBooking
    /\ response.message = PgFull
    /\ \E id \in BookingIds :
          /\ bookings[id].status = "Pending"
          /\ pgs[PgOf(id)].occupiedBeds = pgs[PgOf(id)].totalBeds

\* C5: a successful confirmation of a booking that was not Confirmed, against
\* a Pg with a free bed, adds exactly 1 to that Pg's occupiedBeds, leaves
\* every other Pg as it was and stores the booking as Confirmed.
ConfirmOccupiesOneBed ==
    [][\A id \in BookingIds, d \in RequestDates, u \in Principals :
          ( /\ bookings[id].status # "Confirmed"
            /\ PgOf(id) \in DOMAIN pgs
            /\ pgs[PgOf(id)].occupiedBeds < pgs[PgOf(id)].totalBeds
            /\ TransitionBooking(id, "Confirmed", d, u)
            /\ response'.code = 200 )
          => ( /\ pgs'[PgOf(id)] = [pgs[PgOf(id)] EXCEPT !.occupiedBeds = @ + 1]
               /\ \A q \in DOMAIN pgs \ {PgOf(id)} : pgs'[q] = pgs[q]
               /\ DOMAIN pgs' = DOMAIN pgs
               /\ bookings'[id].status = "Confirmed" )]_vars

\* C5 witness: a confirmation just succeeded and took a bed.
ConfirmTookBed ==
    /\ response.route = PutBooking
    /\ response.code = 200
    /\ \E id \in BookingIds :
          /\ response.body = <<BookingUpdated(id, "Confirmed")>>
          /\ bookings[id].status = "Confirmed"
          /\ Len(emitted) >= 2
          /\ emitted[1] = PgUpdated(PgOf(id), pgs[PgOf(id)])
          /\ pgs[PgOf(id)].occupiedBeds >= 1

\* C6: a permitted request moving a Confirmed booking to Canceled, Rejected or
\* CheckedOut takes exactly 1 from the Pg's occupiedBeds when it is above 0
\* and leaves it at 0 otherwise; occupiedBeds is never negative.
ReleaseFreesOneBed ==
    /\ [](\A p \in DOMAIN pgs : pgs[p].occupiedBeds >= 0)
    /\ [][\A id \in BookingIds, s \in Released, d \in RequestDates, u \in Principals :
          ( /\ bookings[id].status = "Confirmed"
            /\ Permitted(id, s, u)
            /\ PgOf(id) \in DOMAIN pgs
            /\ TransitionBooking(id, s, d, u) )
          => ( /\ pgs'[PgOf(id)].occupiedBeds =
                     IF pgs[PgOf(id)].occupiedBeds > 0
                     THEN pgs[PgOf(id)].occupiedBeds - 1 ELSE 0
               /\ \A q \in DOMAIN pgs \ {PgOf(id)} : pgs'[q] = pgs[q] )]_vars

\* C6 witness: a Confirmed booking was just released and its Pg, which had
\* an occupied bed, was saved with one fewer.
ReleaseFreedBed ==
    /\ response.route = PutBooking
    /\ response.code = 200
    /\ \E id \in BookingIds, s \in Released :
          /\ response.body = <<BookingUpdated(id, s)>>
          /\ emitted = <<PgUpdated(PgOf(id), pgs[PgOf(id)]), BookingUpdated(id, s)>>
          /\ pgs[PgOf(id)].occupiedBeds = 0

\* C7: a request by an admin or caretaker to confirm a booking that is already
\* Confirmed changes no Pg and no payment and is never refused as 'PG is
\* full'; with a well-formed body it succeeds and the stored bookings stay
\* as they were.
ReconfirmIsNoOp ==
    [][\A id \in BookingIds, d \in RequestDates, u \in {AdminUser, CaretakerUser} :
          ( /\ bookings[id].status = "Confirmed"
            /\ TransitionBooking(id, "Confirmed", d, u) )
          => ( /\ pgs' = pgs
               /\ payments' = payments
               /\ response'.message # PgFull
               /\ (d # BadDate => response'.code = 200 /\ bookings' = bookings) )]_vars

\* C7 witness: a request to confirm an already Confirmed booking just
\* succeeded against a full Pg, touching neither the Pg nor the payments.
ReconfirmSucceededOnFullPg ==
    /\ response.route = PutBooking
    /\ response.code = 200
    /\ \E id \in BookingIds :
          /\ response.body = <<BookingUpdated(id, "Confirmed")>>
          /\ emitted = <<BookingUpdated(id, "Confirmed")>>
          /\ IsFull(pgs[PgOf(id)])


(* ======================== payments: C8 .. C10 ========================= *)

\* The system runs freely (transitions, sweeps, months passing) until a
\* booking that is not Confirmed is confirmed; that booking is then canceled
\* and confirmed again, with no other request in between.  roundTrip keeps
\* the booking and the occupiedBeds its Pg had after the first confirmation.
RunFreely ==
    /\ roundTrip.stage = 0
    /\ (AnyTransition \/ FixOccupancy \/ Tick)
    /\ UNCHANGED monitors

FirstConfirm ==
    /\ roundTrip.stage = 0
    /\ \E id \in BookingIds, d \in RequestDates, u \in {AdminUser, CaretakerUser} :
          /\ bookings[id].status # "Confirmed"
          /\ TransitionBooking(id, "Confirmed", d, u)
          /\ response'.code = 200
          /\ roundTrip' = [stage |-> 1, id |-> id,
                           occupiedBeds |-> pgs'[bookings[id].pgId].occupiedBeds]
          /\ UNCHANGED <<confirmedIn, inflight, entryLogs, sockets>>

ThenCancel ==
    /\ roundTrip.stage = 1
    /\ \E d \in RequestDates, u \in Principals :
          /\ TransitionBooking(roundTrip.id, "Canceled", d, u)
          /\ response'.code = 200
          /\ roundTrip' = [roundTrip EXCEPT !.stage = 2]
          /\ UNCHANGED <<confirmedIn, inflight, entryLogs, sockets>>

ThenReconfirm ==
    /\ roundTrip.stage = 2
    /\ \E d \in RequestDates, u \in {AdminUser, CaretakerUser} :
          /\ TransitionBooking(roundTrip.id, "Confirmed", d, u)
          /\ roundTrip' = [roundTrip EXCEPT !.stage = 3]
          /\ UNCHANGED <<confirmedIn, inflight, entryLogs, sockets>>

NextRoundTrip == RunFreely \/ FirstConfirm \/ ThenCancel \/ ThenReconfirm

\* Every Pg with MaxBeds beds.
InitRoundTrip == InitFrom({RentAmount}, {MaxBeds})

SpecRoundTrip == InitRoundTrip /\ [][NextRoundTrip]_vars

\* C8: after confirming a booking, canceling it and confirming it again in
\* the same period, the Pg's occupiedBeds is what it was after the first
\* confirmation, the re-confirmation was not refused for lack of a bed, and
\* there is exactly one Payment for the booking and the period.
RoundTripRestores ==
    roundTrip.stage = 3 =>
        /\ pgs[PgOf(roundTrip.id)].occupiedBeds = roundTrip.occupiedBeds
        /\ response.message # PgFull
        /\ PaymentCount(payments, roundTrip.id, MonthLabel(now)) = 1

\* C8 witness: the three requests were handled and each succeeded.
RoundTripDone ==
    /\ roundTrip.stage = 3
    /\ response.code = 200
    /\ bookings[roundTrip.id].status = "Confirmed"
    /\ PaymentExists(payments, roundTrip.id, MonthLabel(now))

\* C9: there is at most one Payment for every (booking, period) pair.
OnePaymentPerBookingPeriod ==
    \A b \in BookingIds, m \in 0..(MaxPeriod - 1) : PaymentCount(payments, b, m) <= 1

\* C9 witness: in the last month of the clock a confirmation took a bed and
\* created no Payment, because the booking, confirmed before in that month,
\* already had one; it has exactly one Payment for every month.
PaymentInEveryPeriod ==
    \E b \in BookingIds :
        /\ \A m \in 0..(MaxPeriod - 1) : PaymentCount(payments, b, m) = 1
        /\ MonthLabel(now) = MaxPeriod - 1
        /\ response.route = PutBooking
        /\ response.body = <<BookingUpdated(b, "Confirmed")>>
        /\ emitted = <<PgUpdated(PgOf(b), pgs[PgOf(b)]), BookingUpdated(b, "Confirmed")>>

\* The request handled last was a run of the bulk generator, in the month the
\* clock is in now.
GeneratorJustRan ==
    /\ response.route = PostGenerate
    /\ response.code # 401
    /\ MonthLabel(response.date) = MonthLabel(now)

\* C10: a run of the bulk generator that directly follows another run in the
\* same period answers with an empty list of payments and leaves the Payment
\* collection as it was.
SecondGenerateCreatesNothing ==
    GeneratorJustRan =>
        LET run == GenerateLoop(Found(BookingOrder, ConfirmedBookings), payments, <<>>)
        IN  /\ ~run.threw
            /\ run.created = <<>>
            /\ run.payments = payments

(* ==================== payment creation: C11 .. C13 ==================== *)

\* The Confirmed bookings that have no Payment for the current month.
DueBookings ==
    {b \in ConfirmedBookings : ~PaymentExists(payments, b, MonthLabel(now))}

\* The bag of the documents of a list.
ListToBag(list) ==
    LET RECURSIVE Fold(_)
        Fold(l) == IF l = <<>> THEN EmptyBag ELSE SetToBag({Head(l)}) (+) Fold(Tail(l))
    IN  Fold(list)

\* C11: a run of the bulk generator by an admin answers with the list of the
\* payments it created, one for each Confirmed booking that had no Payment for
\* the current month and none for any other booking, adds exactly these to
\* the collection, and afterwards every Confirmed booking has a Payment for
\* the current month.
GeneratorCoversConfirmed ==
    [][\A u \in Principals :
          (u.role = "admin" /\ GeneratePayments(u))
          => ( /\ response'.code = 200
               /\ {response'.body[i].bookingId : i \in 1..Len(response'.body)} = DueBookings
               /\ Len(response'.body) = Cardinality(DueBookings)
               /\ payments' = payments (+) ListToBag(response'.body)
               /\ \A b \in ConfirmedBookings :
                     PaymentExists(payments', b, MonthLabel(now)) )]_vars

\* The Payment the confirmation transition builds for a booking (src/index.js:1391-1400).
ConfirmationPayment(b) ==
    NewPayment(b, bookings[b], ConfirmAmount(bookings[b], pgs[PgOf(b)]), now)

\* C12: for every Confirmed booking without a Payment for the current month,
\* a run of the bulk generator creates a Payment with the amount, month and
\* status of the Payment the confirmation transition would create for it.
GeneratorMatchesConfirmation ==
    \A b \in DueBookings :
        PgOf(b) \in DOMAIN pgs =>
            LET run == GenerateLoop(Found(BookingOrder, ConfirmedBookings), payments, <<>>)
            IN  \E i \in 1..Len(run.created) :
                    /\ run.created[i].bookingId = b
                    /\ run.created[i].amount = ConfirmationPayment(b).amount
                    /\ run.created[i].month = ConfirmationPayment(b).month
                    /\ run.created[i].status = ConfirmationPayment(b).status

\* A transition with a well-formed body (one of the five statuses, no
\* checkInDate) by the admin or a tenant; confirmedIn gains the booking and
\* the month when the request confirmed a booking that was not Confirmed.
TrackedTransition ==
    \E id \in BookingIds, st \in Statuses, d \in {NoDate}, u \in Principals \ {CaretakerUser} :
        /\ TransitionBooking(id, st, d, u)
        /\ confirmedIn' =
              IF st = "Confirmed" /\ bookings[id].status # "Confirmed" /\ response'.code = 200
              THEN confirmedIn \cup {<<id, MonthLabel(now)>>}
              ELSE confirmedIn
        /\ UNCHANGED <<roundTrip, inflight, entryLogs, sockets>>

\* Well-formed booking transitions and bulk generations, one at a time, while
\* the months pass.
\* A new month begins: no booking was confirmed in it yet, and the pairs of
\* the months gone by are dropped.
TrackedTick ==
    /\ Tick
    /\ confirmedIn' = {}
    /\ UNCHANGED <<roundTrip, inflight, entryLogs, sockets>>

NextFirstConfirm ==
    \/ TrackedTransition
    \/ AnyGenerate /\ UNCHANGED monitors
    \/ TrackedTick

\* The first booking without a rentAmount, the second with one, each in a
\* Pg of its own.
InitFirstConfirm ==
    /\ InitPayments
    /\ bookings["b1"].rentAmount = NoRent
    /\ bookings["b2"].rentAmount = RentAmount

SpecFirstConfirm == InitFirstConfirm /\ [][NextFirstConfirm]_vars

\* The Payment C13 describes for a booking confirmed now.
ExpectedPayment(id) ==
    [userId    |-> bookings[id].userId,
     bookingId |-> id,
     pgId      |-> bookings[id].pgId,
     amount    |-> IF bookings[id].rentAmount = NoRent
                   THEN pgs[PgOf(id)].price ELSE bookings[id].rentAmount,
     dueDate   |-> now + DueInDays,
     month     |-> MonthLabel(now),
     status    |-> "Pending"]

Tenants == {Tenant(x) : x \in UserIds}

\* C14: a transition requested by a tenant who does not own the booking, or
\* who asks for a status other than Canceled, is answered 403, changes no
\* booking, no Pg and no payment, and emits nothing.
TenantRequestForbidden ==
    [][\A id \in BookingIds, st \in RequestStatuses, d \in RequestDates, u \in Tenants :
          ( /\ (bookings[id].userId # u.id \/ st # "Canceled")
            /\ TransitionBooking(id, st, d, u) )
          => ( /\ response'.code = 403
               /\ bookings' = bookings
               /\ pgs' = pgs
               /\ payments' = payments
               /\ emitted' = <<>> )]_vars

\* C14 witness: a tenant's request about a Confirmed booking was just
\* refused, and the booking is still Confirmed in an occupied Pg.
TenantRefused ==
    /\ response.route = PutBooking
    /\ response.code = 403
    /\ response.message = "Users can only cancel bookings"
    /\ emitted = <<>>
    /\ \E id \in BookingIds :
          /\ bookings[id].status = "Confirmed"
          /\ pgs[PgOf(id)].occupiedBeds = 1

\* C15: a transition on a booking _id that no document has is answered 404
\* and changes no booking, no Pg and no payment.
MissingBookingNotFound ==
    [][\A st \in RequestStatuses, d \in RequestDates, u \in Principals :
          TransitionBooking(NoSuchBooking, st, d, u)
          => ( /\ response'.code = 404
               /\ bookings' = bookings
               /\ pgs' = pgs
               /\ payments' = payments )]_vars

\* C15 witness: a request for a missing booking was just answered 404, with
\* a Confirmed booking in the collection.
MissingBookingAnswered ==
    /\ response.route = PutBooking
    /\ response.code = 404
    /\ response.message = "Booking not found"
    /\ \E id \in BookingIds : bookings[id].status = "Confirmed"

DeletePgRoute == "DELETE /api/pgs/:id"

\* DELETE /api/pgs/:id: the Pg document is removed; the bookings that
\* reference it stay as they are.  (Every Pg is managed by the admin.)
DeletePg(pgId, user) ==
    IF user.role # "admin" THEN
        /\ response' = Res(DeletePgRoute, 401, "Not authorized as an admin", <<>>)
        /\ emitted' = <<>>
        /\ UNCHANGED <<bookings, pgs, payments, now>>
    ELSE IF pgId \notin DOMAIN pgs THEN
        /\ response' = Res(DeletePgRoute, 404, "PG not found or unauthorized", <<>>)
        /\ emitted' = <<>>
        /\ UNCHANGED <<bookings, pgs, payments, now>>
    ELSE
        /\ pgs' = [q \in DOMAIN pgs \ {pgId} |-> pgs[q]]
        /\ response' = Res(DeletePgRoute, 200, "PG removed", <<>>)
        /\ emitted' = <<>>
        /\ UNCHANGED <<bookings, payments, now>>

AnyDeletePg == \E p \in PgIds, u \in {AdminUser, CaretakerUser} : DeletePg(p, u)

\* Booking transitions, reconciliation sweeps and removals of a Pg.
NextOrphan ==
    \/ AnyTransition /\ UNCHANGED monitors
    \/ FixOccupancy /\ UNCHANGED monitors
    \/ AnyDeletePg /\ UNCHANGED monitors

SpecOrphan == Init /\ [][NextOrphan]_vars

\* C16: a permitted, well-formed request to confirm a booking whose Pg does
\* not exist is answered 404 and does not store the booking as Confirmed.
ConfirmWithoutPgNotFound ==
    [][\A id \in BookingIds, d \in {NoDate, GoodDate}, u \in {AdminUser, CaretakerUser} :
          ( /\ PgOf(id) \notin DOMAIN pgs
            /\ bookings[id].status # "Confirmed"
            /\ TransitionBooking(id, "Confirmed", d, u) )
          => ( /\ response'.code = 404
               /\ bookings'[id].status # "Confirmed" )]_vars

(* ======================= reconciliation: C17 .. C19 =================== *)

\* The Pgs a sweep saves: if (pg.occupiedBeds !== confirmedBookingsCount) { ...; await pg.save() }
SweepWrites(ps, bks) ==
    {p \in DOMAIN ps : ps[p].occupiedBeds # ConfirmedCount(bks, p)}

\* C17: after a sweep every Pg's occupiedBeds is the number of Confirmed
\* bookings that reference it, whatever it was before; the sweep changes
\* nothing else of a Pg, no booking and no payment.
SweepSetsConfirmedCount ==
    [][FixOccupancy
          => ( /\ DOMAIN pgs' = DOMAIN pgs
               /\ \A p \in DOMAIN pgs :
                     pgs'[p] = [pgs[p] EXCEPT !.occupiedBeds = ConfirmedCount(bookings, p)]
               /\ bookings' = bookings
               /\ payments' = payments )]_vars

\* C17 witness: a sweep just overwrote a stored value no transition writes,
\* a count above the Pg's totalBeds.
SweepOverwrote ==
    /\ response.route = GetFixOccupancy
    /\ \E p \in DOMAIN pgs :
          /\ pgs[p].occupiedBeds > pgs[p].totalBeds
          /\ pgs[p].occupiedBeds = ConfirmedCount(bookings, p)

\* C18: in the state a sweep leaves, another sweep saves no Pg and leaves
\* the Pgs, the response and the emitted events as they are.
SweepIsIdempotent ==
    response.route = GetFixOccupancy =>
        /\ SweepWrites(pgs, bookings) = {}
        /\ recalculateOccupancy(pgs, bookings) = pgs
        /\ EmitAllPgs(recalculateOccupancy(pgs, bookings)) = emitted
        /\ Res(GetFixOccupancy, 200, "Occupancy recalculated and synced", <<>>) = response

\* C18 witness: a sweep just ran over a Pg with a Confirmed booking.
SweepSettled ==
    /\ response.route = GetFixOccupancy
    /\ \E id \in BookingIds :
          /\ bookings[id].status = "Confirmed"
          /\ emitted[1].occupiedBeds + emitted[2].occupiedBeds >= 1

\* recalculateOccupancy when counting or saving the Pg failing throws: the
\* for loop runs inside one try block, so the throw leaves the loop and the
\* Pgs listed after the failing one are not visited.
RECURSIVE SweepLoop(_, _, _, _)
SweepLoop(order, ps, bks, failing) ==
    IF order = <<>> THEN ps
    ELSE
        LET p == Head(order)
        IN  IF p = failing THEN ps
            ELSE IF ps[p].occupiedBeds # ConfirmedCount(bks, p)
            THEN SweepLoop(Tail(order),
                           [ps EXCEPT ![p].occupiedBeds = ConfirmedCount(bks, p)], bks, failing)
            ELSE SweepLoop(Tail(order), ps, bks, failing)

\* GET /api/admin/fix-occupancy with a failure at one Pg: recalculateOccupancy
\* logs the error and returns, the handler emits every Pg and answers 200.
FixOccupancyFailing(failing) ==
    /\ pgs' = SweepLoop(Found(PgOrder, DOMAIN pgs), pgs, bookings, failing)
    /\ emitted' = EmitAllPgs(pgs')
    /\ response' = Res(GetFixOccupancy, 200, "Occupancy recalculated and synced", <<>>)
    /\ UNCHANGED <<bookings, payments, now>>

AnyFailingSweep == \E f \in PgIds : FixOccupancyFailing(f)

\* Booking transitions and sweeps, with and without a failure at one Pg.
NextSweepFailure ==
    \/ AnyTransition /\ UNCHANGED monitors
    \/ FixOccupancy /\ UNCHANGED monitors
    \/ AnyFailingSweep /\ UNCHANGED monitors

SpecSweepFailure == Init /\ [][NextSweepFailure]_vars

\* C19: a sweep in which one Pg fails still corrects every other Pg.
FailingSweepCorrectsOthers ==
    [][\A f \in PgIds :
          FixOccupancyFailing(f)
          => \A p \in DOMAIN pgs \ {f} :
                pgs'[p].occupiedBeds = ConfirmedCount(bookings, p)]_vars

(* ================== interleaved confirmations: C20 ==================== *)

\* Two requests PUT /api/bookings/:id {status: 'Confirmed'} by the admin, for
\* different bookings, may be in flight at once; a request runs from one
\* await to the next in a step.  inflight[slot] is the request of a slot:
\*   id        the booking           pc    the await the request stands at
\*   old       booking.status as findById returned it
\*   read      occupiedBeds as Pg.findOne returned it (NotRead before)
\*   pg        the Pg document in the handler's memory
\*   emits     the events emitted so far        code   the status answered
Slots == {1, 2}
NotRead == -1
NoPg == [totalBeds |-> 0, occupiedBeds |-> 0, price |-> 0]

Standing(slot, pc) == slot \in DOMAIN inflight /\ inflight[slot].pc = pc

\* The slot holds no request, or one that was answered.
Free(slot) == IF slot \in DOMAIN inflight THEN inflight[slot].pc = "done" ELSE TRUE

\* Variant: a save that matches the stored document only while its
\* occupiedBeds is still the value read.
SaveFilterChecksBeds(stored, request) == stored.occupiedBeds = request.read

\* await pg.save(): updateOne({ _id }, { $set: { occupiedBeds } }); the filter
\* matches the stored document whatever its occupiedBeds has become.
SaveFilterMatches(stored, request) == TRUE

\* const booking = await Booking.findById(..); the permission check passes;
\* oldStatus = booking.status; booking.status = 'Confirmed'
Receive(slot, id) ==
    /\ Free(slot)
    /\ \A o \in DOMAIN inflight : o # slot /\ inflight[o].id = id => Free(o)
    /\ inflight' = (slot :> [id |-> id,
                             pc |-> IF ConfirmBranch("Confirmed", bookings[id].status)
                                    THEN "findPg" ELSE "saveBooking",
                             old |-> bookings[id].status,
                             read |-> NotRead, pg |-> NoPg, emits |-> <<>>, code |-> 0])
                   @@ inflight
    /\ UNCHANGED <<bookings, pgs, payments, now, response, emitted, roundTrip, confirmedIn, entryLogs, sockets>>

\* const pg = await Pg.findOne({ id: booking.pgId }); the capacity check on
\* the document read; pg.occupiedBeds += 1
FindPg(slot) ==
    /\ Standing(slot, "findPg")
    /\ LET r == inflight[slot]
           pg == pgs[bookings[r.id].pgId]
       IN  IF IsFull(pg)
           THEN /\ inflight' = [inflight EXCEPT ![slot] =
                                   [r EXCEPT !.pc = "done", !.read = pg.occupiedBeds,
                                             !.pg = pg, !.code = 400]]
                /\ response' = Res(PutBooking, 400, PgFull, <<>>)
                /\ emitted' = <<>>
           ELSE /\ inflight' = [inflight EXCEPT ![slot] =
                                   [r EXCEPT !.pc = "savePg", !.read = pg.occupiedBeds,
                                             !.pg = Occupy(pg)]]
                /\ UNCHANGED <<response, emitted>>
    /\ UNCHANGED <<bookings, pgs, payments, now, roundTrip, confirmedIn, entryLogs, sockets>>

\* await pg.save(); io.emit('pgUpdated', pg)
SavePg(slot) ==
    /\ Standing(slot, "savePg")
    /\ LET r == inflight[slot]
           pgId == bookings[r.id].pgId
       IN  IF SaveFilterMatches(pgs[pgId], r)
           THEN /\ pgs' = [pgs EXCEPT ![pgId].occupiedBeds = r.pg.occupiedBeds]
                /\ inflight' = [inflight EXCEPT ![slot] =
                                   [r EXCEPT !.pc = "findPayment",
                                             !.emits = Append(@, PgUpdated(pgId, r.pg))]]
                /\ UNCHANGED <<response, emitted>>
           ELSE /\ inflight' = [inflight EXCEPT ![slot] = [r EXCEPT !.pc = "done", !.code = 400]]
                /\ response' = Res(PutBooking, 400, "No matching document found", <<>>)
                /\ emitted' = r.emits
                /\ UNCHANGED pgs
    /\ UNCHANGED <<bookings, payments, now, roundTrip, confirmedIn, entryLogs, sockets>>

\* const existingPayment = await Payment.findOne({ bookingId, month })
FindPayment(slot) ==
    /\ Standing(slot, "findPayment")
    /\ inflight' = [inflight EXCEPT ![slot].pc =
                       IF PaymentExists(payments, inflight[slot].id, MonthLabel(now))
                       THEN "saveBooking" ELSE "savePayment"]
    /\ UNCHANGED <<bookings, pgs, payments, now, response, emitted, roundTrip, confirmedIn, entryLogs, sockets>>

\* Variant: an insert that a unique index on (bookingId, month) refuses
\* when the pair has a Payment.
SavePaymentUnlessExists(slot) ==
    /\ Standing(slot, "savePayment")
    /\ LET r == inflight[slot]
           newPayment == NewPayment(r.id, bookings[r.id],
                                    ConfirmAmount(bookings[r.id], r.pg), now)
       IN  IF PaymentExists(payments, r.id, MonthLabel(now))
           THEN /\ inflight' = [inflight EXCEPT ![slot] = [r EXCEPT !.pc = "done", !.code = 400]]
                /\ response' = Res(PutBooking, 400, "duplicate key", <<>>)
                /\ emitted' = r.emits
                /\ UNCHANGED payments
           ELSE /\ payments' = payments (+) SetToBag({newPayment})
                /\ inflight' = [inflight EXCEPT ![slot] =
                                   [r EXCEPT !.pc = "saveBooking",
                                             !.emits = Append(@, PaymentCreated(newPayment))]]
                /\ UNCHANGED <<response, emitted>>
    /\ UNCHANGED <<bookings, pgs, now, roundTrip, confirmedIn, entryLogs, sockets>>

\* await newPayment.save(); io.emit('paymentCreated', newPayment)
SavePayment(slot) ==
    /\ Standing(slot, "savePayment")
    /\ LET r == inflight[slot]
           newPayment == NewPayment(r.id, bookings[r.id],
                                    ConfirmAmount(bookings[r.id], r.pg), now)
       IN  /\ payments' = payments (+) SetToBag({newPayment})
           /\ inflight' = [inflight EXCEPT ![slot] =
                              [r EXCEPT !.pc = "saveBooking",
                                        !.emits = Append(@, PaymentCreated(newPayment))]]
    /\ UNCHANGED <<bookings, pgs, now, response, emitted, roundTrip, confirmedIn, entryLogs, sockets>>

\* await booking.save(); io.emit('bookingUpdated', ..); res.json(..)
SaveBooking(slot) ==
    /\ Standing(slot, "saveBooking")
    /\ LET r == inflight[slot]
       IN  /\ bookings' = [bookings EXCEPT ![r.id].status = "Confirmed"]
           /\ inflight' = [inflight EXCEPT ![slot] = [r EXCEPT !.pc = "done", !.code = 200]]
           /\ response' = Res(PutBooking, 200, "", <<BookingUpdated(r.id, "Confirmed")>>)
           /\ emitted' = Append(r.emits, BookingUpdated(r.id, "Confirmed"))
    /\ UNCHANGED <<pgs, payments, now, roundTrip, confirmedIn, entryLogs, sockets>>

NextConcurrent ==
    \E slot \in Slots :
        \/ \E id \in BookingIds : Receive(slot, id)
        \/ FindPg(slot)
        \/ SavePg(slot)
        \/ FindPayment(slot)
        \/ SavePayment(slot)
        \/ SaveBooking(slot)

SpecConcurrent == Init /\ [][NextConcurrent]_vars

\* Two finished requests for different bookings of one Pg, each of which read
\* the Pg with exactly one free bed.
Raced(i, j) ==
    /\ i # j
    /\ Standing(i, "done") /\ Standing(j, "done")
    /\ inflight[i].id # inflight[j].id
    /\ PgOf(inflight[i].id) = PgOf(inflight[j].id)
    /\ inflight[i].read = pgs[PgOf(inflight[i].id)].totalBeds - 1
    /\ inflight[j].read = pgs[PgOf(inflight[j].id)].totalBeds - 1

\* C20: when two confirmations of different bookings both read a Pg with
\* exactly one free bed, before either saved its increment, both succeed and
\* the Pg has more Confirmed bookings than totalBeds.
RacingConfirmationsOverbook ==
    \A i \in Slots, j \in Slots :
        Raced(i, j) =>
            /\ inflight[i].code = 200 /\ inflight[j].code = 200
            /\ bookings[inflight[i].id].status = "Confirmed"
            /\ bookings[inflight[j].id].status = "Confirmed"
            /\ ConfirmedCount(bookings, PgOf(inflight[i].id))
                  > pgs[PgOf(inflight[i].id)].totalBeds

\* C20 witness: both requests of a race have finished; the Pg has one bed,
\* one bed counted and two Confirmed bookings.
OverbookedByRace ==
    /\ Raced(1, 2)
    /\ pgs[PgOf(inflight[1].id)].totalBeds = 1
    /\ pgs[PgOf(inflight[1].id)].occupiedBeds = 1
    /\ ConfirmedCount(bookings, PgOf(inflight[1].id)) = 2

(* ================= interleaved payment creation: C21 ================== *)

\* A confirmation received whatever else is in flight, also for the same booking.
ReceiveAny(slot, id) ==
    /\ Free(slot)
    /\ inflight' = (slot :> [id |-> id,
                             pc |-> IF ConfirmBranch("Confirmed", bookings[id].status)
                                    THEN "findPg" ELSE "saveBooking",
                             old |-> bookings[id].status,
                             read |-> NotRead, pg |-> NoPg, emits |-> <<>>, code |-> 0])
                   @@ inflight
    /\ UNCHANGED <<bookings, pgs, payments, now, response, emitted, roundTrip, confirmedIn, entryLogs, sockets>>

\* A run of the bulk generator that has served the bookings before list:
\* answered when the list is empty, at the next Payment.findOne otherwise.
\*   list      the bookings still to serve     created   the payments pushed
GeneratorAt(list, created) ==
    [id |-> IF list = <<>> THEN NoSuchBooking ELSE Head(list),
     pc |-> IF list = <<>> THEN "done" ELSE "genCheck",
     old |-> "", read |-> NotRead, pg |-> NoPg,
     emits |-> IF list = <<>>
               THEN [i \in 1..Len(created) |-> PaymentCreated(created[i])] ELSE <<>>,
     code |-> IF list = <<>> THEN 200 ELSE 0,
     list |-> list, created |-> created]

\* The run moves on to list; the response and the emits of a run that ended.
GeneratorMoves(slot, list, created) ==
    /\ inflight' = (slot :> GeneratorAt(list, created)) @@ inflight
    /\ IF list = <<>>
       THEN /\ response' = Res(PostGenerate, 200, "Generated rent requests", created)
            /\ emitted' = GeneratorAt(list, created).emits
       ELSE UNCHANGED <<response, emitted>>

\* const bookings = await Booking.find({ status: 'Confirmed' }), by the admin
GenFind(slot) ==
    /\ Free(slot)
    /\ GeneratorMoves(slot, Found(BookingOrder, ConfirmedBookings), <<>>)
    /\ UNCHANGED <<bookings, pgs, payments, now, roundTrip, confirmedIn, entryLogs, sockets>>

\* const existing = await Payment.findOne({ bookingId: booking._id, month })
GenCheck(slot) ==
    /\ Standing(slot, "genCheck")
    /\ LET r == inflight[slot]
       IN  IF PaymentExists(payments, r.id, MonthLabel(now))
           THEN GeneratorMoves(slot, Tail(r.list), r.created)
           ELSE /\ inflight' = [inflight EXCEPT ![slot].pc = "genInsert"]
                /\ UNCHANGED <<response, emitted>>
    /\ UNCHANGED <<bookings, pgs, payments, now, roundTrip, confirmedIn, entryLogs, sockets>>

\* await payment.save(); payments.push(payment)
GenInsert(slot) ==
    /\ Standing(slot, "genInsert")
    /\ LET r == inflight[slot]
           payment == NewPayment(r.id, bookings[r.id], bookings[r.id].rentAmount, now)
       IN  IF PaymentValid(payment)
           THEN /\ payments' = payments (+) SetToBag({payment})
                /\ GeneratorMoves(slot, Tail(r.list), Append(r.created, payment))
           ELSE /\ inflight' = [inflight EXCEPT ![slot] = [r EXCEPT !.pc = "done", !.code = 500]]
                /\ response' = Res(PostGenerate, 500, "Payment validation failed", <<>>)
                /\ emitted' = <<>>
                /\ UNCHANGED payments
    /\ UNCHANGED <<bookings, pgs, now, roundTrip, confirmedIn, entryLogs, sockets>>

\* The booking the racing requests are about.
RaceBookings == {"b1"}

\* A cancellation by the admin, handled between two steps of the requests in flight.
CancelBetween ==
    /\ \E id \in RaceBookings : TransitionBooking(id, "Canceled", NoDate, AdminUser)
    /\ UNCHANGED monitors

\* The month changes while no request is in flight.
TickBetween ==
    /\ \A slot \in Slots : Free(slot)
    /\ Tick
    /\ UNCHANGED monitors

NextPaymentRace ==
    \/ \E slot \in Slots :
          \/ \E id \in RaceBookings : ReceiveAny(slot, id)
          \/ FindPg(slot)
          \/ SavePg(slot)
          \/ FindPayment(slot)
          \/ SavePayment(slot)
          \/ SaveBooking(slot)
          \/ GenFind(slot)
          \/ GenCheck(slot)
          \/ GenInsert(slot)
    \/ CancelBetween
    \/ TickBetween

SpecPaymentRace == InitRoundTrip /\ [][NextPaymentRace]_vars

\* The request of a slot found no Payment for its booking and stands before
\* its insert.
AboutToInsert(slot) ==
    Standing(slot, "savePayment") \/ Standing(slot, "genInsert")

\* C21: a confirmation or a bulk generation that found no Payment for
\* (booking, month) inserts its Payment also when another request has
\* inserted one for the pair since: the pair then has two Payments or more.
LateInsertDuplicates ==
    [][\A slot \in Slots :
          ( /\ AboutToInsert(slot)
            /\ PaymentExists(payments, inflight[slot].id, MonthLabel(now))
            /\ (SavePayment(slot) \/ GenInsert(slot)) )
          => PaymentCount(payments', inflight[slot].id, MonthLabel(now))
                = PaymentCount(payments, inflight[slot].id, MonthLabel(now)) + 1]_vars

\* C21 witness: a confirmation and a bulk generation have both inserted a
\* Payment for one booking and the current month.
TwoPaymentsByRace ==
    \E i \in Slots, j \in Slots, b \in BookingIds :
        /\ Standing(i, "done") /\ Standing(j, "done")
        /\ inflight[i].id = b /\ inflight[i].read # NotRead /\ inflight[i].code = 200
        /\ inflight[j].code = 200 /\ "created" \in DOMAIN inflight[j]
        /\ \E k \in 1..Len(inflight[j].created) :
              /\ inflight[j].created[k].bookingId = b
              /\ inflight[j].created[k].month = MonthLabel(now)
        /\ \E k \in 1..Len(inflight[i].emits) :
              inflight[i].emits[k] = [event |-> "paymentCreated", id |-> b,
                                      month |-> MonthLabel(now)]
        /\ PaymentCount(payments, b, MonthLabel(now)) = 2

(* ================= a sweep among booking transitions: C22 ============= *)

\* A sweep that has visited the Pgs before list: at the next countDocuments,
\* or at the route's own Pg.find() when the list is empty.
\*   docs    the documents Pg.find() returned    wrote   the counts it saved
SweepAt(docs, list, wrote) ==
    [id |-> IF list = <<>> THEN "" ELSE Head(list),
     pc |-> IF list = <<>> THEN "sweepEmit" ELSE "sweepCount",
     old |-> "", read |-> NotRead, pg |-> NoPg, emits |-> <<>>, code |-> 0,
     docs |-> docs, list |-> list, wrote |-> wrote]

\* const pgs = await Pg.find()
SweepFind(slot) ==
    /\ Free(slot)
    /\ inflight' = (slot :> SweepAt(pgs, Found(PgOrder, DOMAIN pgs), <<>>)) @@ inflight
    /\ UNCHANGED <<bookings, pgs, payments, now, response, emitted, roundTrip, confirmedIn, entryLogs, sockets>>

\* const confirmedBookingsCount = await Booking.countDocuments({...}), then
\* the comparison with the document that Pg.find() returned
SweepCount(slot) ==
    /\ Standing(slot, "sweepCount")
    /\ LET r == inflight[slot]
           count == ConfirmedCount(bookings, r.id)
       IN  IF r.docs[r.id].occupiedBeds # count
           THEN inflight' = [inflight EXCEPT ![slot] = [r EXCEPT !.pc = "sweepSave",
                                                                 !.read = count]]
           ELSE inflight' = [inflight EXCEPT ![slot] = SweepAt(r.docs, Tail(r.list), r.wrote)]
    /\ UNCHANGED <<bookings, pgs, payments, now, response, emitted, roundTrip, confirmedIn, entryLogs, sockets>>

\* pg.occupiedBeds = confirmedBookingsCount; await pg.save()
SweepSave(slot) ==
    /\ Standing(slot, "sweepSave")
    /\ LET r == inflight[slot]
       IN  /\ pgs' = [pgs EXCEPT ![r.id].occupiedBeds = r.read]
           /\ inflight' = [inflight EXCEPT ![slot] =
                              SweepAt(r.docs, Tail(r.list), Append(r.wrote, <<r.id, r.read>>))]
    /\ UNCHANGED <<bookings, payments, now, response, emitted, roundTrip, confirmedIn, entryLogs, sockets>>

\* const pgs = await Pg.find(); pgs.forEach(...); res.json(...)
SweepEmit(slot) ==
    /\ Standing(slot, "sweepEmit")
    /\ inflight' = [inflight EXCEPT ![slot].pc = "done", ![slot].code = 200]
    /\ emitted' = EmitAllPgs(pgs)
    /\ response' = Res(GetFixOccupancy, 200, "Occupancy recalculated and synced", <<>>)
    /\ UNCHANGED <<bookings, pgs, payments, now, roundTrip, confirmedIn, entryLogs, sockets>>

\* Where the record of the last sweep that ran alone is kept.
QuietSlot == 0

\* A sweep that starts when no request is in flight and ends before the next
\* one is received.
QuietSweep ==
    /\ \A slot \in Slots : Free(slot)
    /\ FixOccupancy
    /\ inflight' = (QuietSlot :> [SweepAt(pgs, <<>>, <<>>) EXCEPT !.pc = "done", !.code = 200])
                   @@ inflight
    /\ UNCHANGED <<roundTrip, confirmedIn, entryLogs, sockets>>

NextSweepRace ==
    \/ \E slot \in Slots :
          \/ \E id \in RaceBookings : ReceiveAny(slot, id)
          \/ FindPg(slot)
          \/ SavePg(slot)
          \/ FindPayment(slot)
          \/ SavePayment(slot)
          \/ SaveBooking(slot)
          \/ SweepFind(slot)
          \/ SweepCount(slot)
          \/ SweepSave(slot)
          \/ SweepEmit(slot)
    \/ CancelBetween
    \/ QuietSweep

SpecSweepRace == InitRoundTrip /\ [][NextSweepRace]_vars

\* C22: whatever sweeps and transitions did to one another before, a sweep
\* that runs with no request in flight leaves every Pg with an occupiedBeds
\* equal to the number of its Confirmed bookings.
QuietSweepRemovesMismatch ==
    [][QuietSweep => \A p \in PgIds : pgs'[p].occupiedBeds = ConfirmedCount(bookings', p)]_vars

\* C22 witness: an interleaved sweep wrote a count that the bookings no longer
\* have, a sweep running alone found that count stored and corrected it.
QuietSweepCorrected ==
    /\ Standing(QuietSlot, "done")
    /\ response.route = GetFixOccupancy
    /\ pgs = recalculateOccupancy(inflight[QuietSlot].docs, bookings)
    /\ \E slot \in Slots, p \in PgIds :
          /\ Standing(slot, "done")
          /\ "wrote" \in DOMAIN inflight[slot]
          /\ \E k \in 1..Len(inflight[slot].wrote) :
                /\ inflight[slot].wrote[k][1] = p
                /\ inflight[slot].wrote[k][2] = inflight[QuietSlot].docs[p].occupiedBeds
          /\ inflight[QuietSlot].docs[p].occupiedBeds # ConfirmedCount(bookings, p)
          /\ pgs[p].occupiedBeds = ConfirmedCount(bookings, p)

(* ========== bookings created and deleted, Pgs edited: C23, C24 ========= *)

PostBooking == "POST /api/bookings"
DeleteBookings == "DELETE /api/bookings"
DeleteBookingRoute == "DELETE /api/bookings/:id"
PutPg == "PUT /api/pgs/:id"

BookingCreated(id, status) == [event |-> "bookingCreated", id |-> id, status |-> status]

\* Booking.findOne({ userId, status: { $in: ['Pending', 'Confirmed'] } })
HasActiveBooking(userId) ==
    \E b \in DOMAIN bookings :
        bookings[b].userId = userId /\ bookings[b].status \in {"Pending", "Confirmed"}

\* new Booking({ ...req.body, rentAmount }): a status in the body is kept, the
\* schema's default fills in for a body without one.
CreatedStatus(status) == IF status = NoStatus THEN "Pending" ELSE status

\* POST /api/bookings by an authenticated principal; id is the _id the new
\* document gets, the other arguments are fields of req.body.
CreateBooking(id, userId, pgId, status, rentAmount) ==
    /\ id \notin DOMAIN bookings
    /\ IF HasActiveBooking(userId) THEN
           /\ response' = Res(PostBooking, 400, "You already have an active booking. You can only book one room at a time.", <<>>)
           /\ emitted' = <<>>
           /\ UNCHANGED <<bookings, pgs, payments, now>>
       ELSE IF ~BookingValid(CreatedStatus(status), NoDate) THEN
           /\ response' = Res(PostBooking, 400, "Booking validation failed", <<>>)
           /\ emitted' = <<>>
           /\ UNCHANGED <<bookings, pgs, payments, now>>
       ELSE
           LET rent == IF Truthy(rentAmount) THEN rentAmount
                       ELSE IF pgId \in DOMAIN pgs THEN pgs[pgId].price ELSE 0
               doc == [userId |-> userId, pgId |-> pgId,
                       status |-> CreatedStatus(status), rentAmount |-> rent]
           IN  /\ bookings' = (id :> doc) @@ bookings
               /\ emitted' = <<BookingCreated(id, doc.status)>>
               /\ response' = Res(PostBooking, 201, "", <<BookingCreated(id, doc.status)>>)
               /\ UNCHANGED <<pgs, payments, now>>

\* DELETE /api/bookings: every booking removed, every Pg's occupiedBeds set to 0.
DeleteAllBookings(user) ==
    IF user.role # "admin" THEN
        /\ response' = Res(DeleteBookings, 401, "Not authorized as an admin", <<>>)
        /\ emitted' = <<>>
        /\ UNCHANGED <<bookings, pgs, payments, now>>
    ELSE
        /\ bookings' = [b \in {} |-> b]
        /\ pgs' = [p \in DOMAIN pgs |-> [pgs[p] EXCEPT !.occupiedBeds = 0]]
        /\ emitted' = EmitAllPgs(pgs')
        /\ response' = Res(DeleteBookings, 200, "All bookings cleared", <<>>)
        /\ UNCHANGED <<payments, now>>

\* Variant: a deletion that removes the document and leaves the Pg alone.
DeleteBookingOnly(id, user) ==
    IF user.role # "admin" \/ id \notin DOMAIN bookings THEN
        /\ response' = Res(DeleteBookingRoute, 404, "Booking not found", <<>>)
        /\ emitted' = <<>>
        /\ UNCHANGED <<bookings, pgs, payments, now>>
    ELSE
        /\ bookings' = [b \in DOMAIN bookings \ {id} |-> bookings[b]]
        /\ emitted' = <<>>
        /\ response' = Res(DeleteBookingRoute, 200, "Booking removed", <<>>)
        /\ UNCHANGED <<pgs, payments, now>>

\* DELETE /api/bookings/:id: the booking removed, and a bed of its Pg freed
\* when it was Confirmed.
DeleteBooking(id, user) ==
    IF user.role # "admin" THEN
        /\ response' = Res(DeleteBookingRoute, 401, "Not authorized as an admin", <<>>)
        /\ emitted' = <<>>
        /\ UNCHANGED <<bookings, pgs, payments, now>>
    ELSE IF id \notin DOMAIN bookings THEN
        /\ response' = Res(DeleteBookingRoute, 404, "Booking not found", <<>>)
        /\ emitted' = <<>>
        /\ UNCHANGED <<bookings, pgs, payments, now>>
    ELSE
        LET booking == bookings[id]
            frees == /\ booking.status = "Confirmed"
                     /\ booking.pgId \in DOMAIN pgs
                     /\ HasOccupant(pgs[booking.pgId])
        IN  /\ bookings' = [b \in DOMAIN bookings \ {id} |-> bookings[b]]
            /\ pgs' = IF frees THEN [pgs EXCEPT ![booking.pgId] = Vacate(@)] ELSE pgs
            /\ emitted' = IF frees THEN <<PgUpdated(booking.pgId, pgs'[booking.pgId])>> ELSE <<>>
            /\ response' = Res(DeleteBookingRoute, 200, "Booking removed", <<>>)
            /\ UNCHANGED <<payments, now>>

\* req.body of PUT /api/pgs/:id: the fields to set, taken as they come.
PgBodies == {[occupiedBeds |-> n] : n \in 0..MaxBeds}

\* PUT /api/pgs/:id: Pg.findOneAndUpdate(query, req.body, { new: true }).
\* (Every Pg is managed by the admin.)
UpdatePg(pgId, body, user) ==
    IF user.role # "admin" THEN
        /\ response' = Res(PutPg, 401, "Not authorized as an admin", <<>>)
        /\ emitted' = <<>>
        /\ UNCHANGED <<bookings, pgs, payments, now>>
    ELSE IF pgId \notin DOMAIN pgs THEN
        /\ response' = Res(PutPg, 404, "PG not found or unauthorized", <<>>)
        /\ emitted' = <<>>
        /\ UNCHANGED <<bookings, pgs, payments, now>>
    ELSE
        /\ pgs' = [pgs EXCEPT ![pgId] =
                      [f \in DOMAIN pgs[pgId] |-> IF f \in DOMAIN body THEN body[f] ELSE pgs[pgId][f]]]
        /\ emitted' = <<>>
        /\ response' = Res(PutPg, 200, "", <<pgId>>)
        /\ UNCHANGED <<bookings, payments, now>>

\* Requests to create a booking: each tenant for themself, with and without
\* a status in the body.  (Pg ids are interchangeable for the first booking.)
AnyCreate ==
    \E id \in BookingIds, p \in PgIds, st \in {NoStatus, "Confirmed", BogusStatus} :
        /\ id = "b1" => p = "pg1"
        /\ CreateBooking(id, UserOf(id), p, st, NoRent)

AnyDeleteBooking == \E id \in BookingIds : DeleteBooking(id, AdminUser)

AnyDeleteAll == \E u \in {AdminUser, CaretakerUser} : DeleteAllBookings(u)

AnyUpdatePg == \E p \in PgIds, body \in PgBodies : UpdatePg(p, body, AdminUser)

\* A well-formed transition requested by the admin.
AdminTransition ==
    \E id \in BookingIds, st \in {"Confirmed", "Canceled"} :
        TransitionBooking(id, st, NoDate, AdminUser)

AdminGenerate == GeneratePayments(AdminUser)

\* No booking yet, every Pg empty.
InitEmpty ==
    /\ bookings = [b \in {} |-> b]
    /\ pgs \in [PgIds -> [totalBeds : {MaxBeds}, occupiedBeds : {0}, price : {PgPrice}]]
    /\ payments = EmptyBag
    /\ now = 0
    /\ response = [route |-> "", code |-> 0, message |-> "", body |-> <<>>, date |-> 0]
    /\ emitted = <<>>
    /\ roundTrip = Idle
    /\ confirmedIn = {}
    /\ inflight = NoRequest
    /\ entryLogs = <<>>
    /\ sockets = NoSockets

NextLifecycle ==
    \/ AnyCreate /\ UNCHANGED monitors
    \/ AnyDeleteBooking /\ UNCHANGED monitors
    \/ AnyDeleteAll /\ UNCHANGED monitors
    \/ AnyUpdatePg /\ UNCHANGED monitors
    \/ AdminTransition /\ UNCHANGED monitors
    \/ FixOccupancy /\ UNCHANGED monitors
    \/ AdminGenerate /\ UNCHANGED monitors

SpecLifecycle == InitEmpty /\ [][NextLifecycle]_vars

\* C23: a booking that POST /api/bookings stores has status Pending (so it is
\* not Confirmed), and storing it changes no Pg.
CreatedAsPending ==
    [][\A id \in BookingIds, u \in UserIds, p \in PgIds, st \in RequestStatuses :
          (CreateBooking(id, u, p, st, NoRent) /\ id \in DOMAIN bookings')
          => (bookings'[id].status = "Pending" /\ pgs' = pgs)]_vars

\* The operations that are neither a booking transition nor a sweep.
OtherOperation ==
    AnyCreate \/ AnyDeleteBooking \/ AnyDeleteAll \/ AnyUpdatePg \/ AdminGenerate

\* C24: creating a booking, deleting bookings, editing a Pg and generating
\* payments leave the occupiedBeds of every Pg as it was.
OnlyTransitionsAndSweepsMoveBeds ==
    [][OtherOperation => \A p \in PgIds : pgs'[p].occupiedBeds = pgs[p].occupiedBeds]_vars

(* ====================== terminal statuses: C25 ========================= *)

\* C25: a booking whose status is Rejected, CheckedOut or Canceled keeps that
\* status whatever request is handled next.
TerminalStatusIsFinal ==
    [][\A id \in BookingIds :
          bookings[id].status \in Released => bookings'[id].status = bookings[id].status]_vars

(* =================== a status outside the enum: C26 ==================== *)

\* Every request to PUT /api/bookings/:id whose checkInDate, when sent, is a date.
AnyDatedTransition ==
    \E id \in BookingIds, u \in Principals, st \in RequestStatuses, d \in {NoDate, GoodDate} :
        TransitionBooking(id, st, d, u)

NextStatusOnly ==
    \/ AnyDatedTransition /\ UNCHANGED monitors
    \/ FixOccupancy /\ UNCHANGED monitors

SpecStatusOnly == Init /\ [][NextStatusOnly]_vars

ValidationFailed == Res(PutBooking, 400, "Booking validation failed", <<>>)

\* C26: a transition that asks for a status outside the enum changes no
\* booking, no Pg and no payment; when the permission check lets it through
\* it is answered with the validation error of booking.save(); and every
\* stored status is one of the five.
UnknownStatusRejected ==
    /\ [][\A id \in BookingIds, d \in {NoDate, GoodDate}, u \in Principals :
             TransitionBooking(id, BogusStatus, d, u)
             => /\ UNCHANGED <<bookings, pgs, payments>>
                /\ Permitted(id, BogusStatus, u) => (response' = ValidationFailed /\ emitted' = <<>>)]_vars
    /\ [](\A id \in BookingIds : bookings[id].status \in Statuses)

\* C26 witness: the last request was refused by the validation of the status
\* while a bed was taken and a payment stored, all left as they were.
UnknownStatusRefused ==
    /\ response = ValidationFailed
    /\ emitted = <<>>
    /\ \E id \in BookingIds : bookings[id].status = "Confirmed"
    /\ payments # EmptyBag

(* ================ notifications of a transition: C27 =================== *)

\* The last request was a transition that succeeded / that was refused with
\* 404, 403 or 400 'PG is full'.
TransitionSucceeded == response.route = PutBooking /\ response.code = 200
TransitionRefused ==
    /\ response.route = PutBooking
    /\ \/ response.code \in {403, 404}
       \/ response.code = 400 /\ response.message = PgFull

\* C27: a transition that succeeded emitted one bookingUpdated, last, with the
\* status that is stored, after the pgUpdated and the paymentCreated of the
\* same request; a transition refused as not found, forbidden or full
\* emitted nothing.
TransitionEmitsBookingLast ==
    /\ TransitionSucceeded =>
          /\ Len(emitted) >= 1
          /\ emitted[Len(emitted)] = response.body[1]
          /\ emitted[Len(emitted)].event = "bookingUpdated"
          /\ emitted[Len(emitted)].status = bookings[emitted[Len(emitted)].id].status
          /\ \A k \in 1..(Len(emitted) - 1) : emitted[k].event \in {"pgUpdated", "paymentCreated"}
    /\ TransitionRefused => emitted = <<>>

\* C27 witness: a confirmation emitted pgUpdated, paymentCreated and
\* bookingUpdated, in that order.
ConfirmationEmittedThree ==
    /\ TransitionSucceeded
    /\ Len(emitted) = 3
    /\ emitted[1].event = "pgUpdated"
    /\ emitted[2].event = "paymentCreated"
    /\ emitted[3].event = "bookingUpdated"

(* ============== the on-demand reconciliation: C28, C29 ================= *)

\* The Pgs a pgUpdated of the last request was emitted for.
PgsNotified(es) == {es[k].id : k \in {i \in 1..Len(es) : es[i].event = "pgUpdated"}}

\* C28: GET /api/admin/fix-occupancy emits a pgUpdated, carrying the stored
\* record, for the Pgs whose occupiedBeds the sweep rewrote, and for no other.
SweepNotifiesCorrectedOnly ==
    [][FixOccupancy =>
          /\ PgsNotified(emitted') = {p \in PgIds : pgs'[p] # pgs[p]}
          /\ \A k \in 1..Len(emitted') :
                emitted'[k] = PgUpdated(emitted'[k].id, pgs'[emitted'[k].id])]_vars

\* A request without a valid token.
Anonymous == [role |-> "", id |-> ""]

\* GET /api/admin/fix-occupancy as sent by user: the route is registered
\* without protect and without admin, req.user is never read.
FixOccupancyBy(user) == FixOccupancy

\* C29: a reconciliation requested by an unauthenticated principal, a tenant
\* or the caretaker is refused and changes no Pg.
SweepOnlyForAdmin ==
    [][\A u \in (Principals \cup {Anonymous}) \ {AdminUser} :
          FixOccupancyBy(u) => (response'.code \in {401, 403} /\ pgs' = pgs)]_vars

(* =================== PUT /api/payments/:id: C30 ======================== *)

PutPayment == "PUT /api/payments/:id"

\* Variant: no ownership check.
OwnsPaymentAlways(payment, user) == TRUE

\* !(payment.userId !== req.user.id)
OwnsPayment(payment, user) == payment.userId = user.id

\* One document of the collection replaced by another.
ReplacePayment(pays, old, new) == (pays (-) SetToBag({old})) (+) SetToBag({new})

\* PUT /api/payments/:id for the stored payment, by an authenticated user.
UpdatePayment(payment, status, user) ==
    /\ BagIn(payment, payments)
    /\ IF user.role = "user" /\ ~OwnsPayment(payment, user) THEN
           /\ response' = Res(PutPayment, 403, "Not authorized", <<>>)
           /\ emitted' = <<>>
           /\ UNCHANGED <<bookings, pgs, payments, now>>
       ELSE
           LET status2 == IF user.role = "user" THEN "Paid"
                          ELSE IF user.role = "admin" /\ status # NoStatus THEN status
                          ELSE payment.status
               saved == [payment EXCEPT !.status = status2]
               paid == status2 \in {"Paid", "Verified"} /\ payment.bookingId \in DOMAIN bookings
           IN  /\ payments' = ReplacePayment(payments, payment, saved)
               /\ emitted' = <<PaymentUpdated(saved)>>
               /\ bookings' = IF paid
                              THEN [bookings EXCEPT ![payment.bookingId].paymentStatus = "Paid"]
                              ELSE bookings
               /\ response' = Res(PutPayment, 200, "", <<saved>>)
               /\ UNCHANGED <<pgs, now>>

AnyUpdatePayment ==
    \E payment \in BagToSet(payments), u \in Principals :
        \E st \in IF u.role = "admin" THEN {NoStatus, "Verified"} ELSE {NoStatus} :
            UpdatePayment(payment, st, u)

\* Every booking Pending, with the paymentStatus of the schema's default.
InitPayUpdate ==
    /\ bookings \in [BookingIds -> [userId : UserIds, pgId : PgIds, status : {"Pending"},
                                    rentAmount : {RentAmount}, paymentStatus : {"Pending"}]]
    /\ \A b \in BookingIds : bookings[b].userId = UserOf(b)
    /\ bookings["b1"].pgId = "pg1"
    /\ pgs \in [PgIds -> [totalBeds : {MaxBeds}, occupiedBeds : {0}, price : {PgPrice}]]
    /\ payments = EmptyBag
    /\ now = 0
    /\ response = [route |-> "", code |-> 0, message |-> "", body |-> <<>>, date |-> 0]
    /\ emitted = <<>>
    /\ roundTrip = Idle
    /\ confirmedIn = {}
    /\ inflight = NoRequest
    /\ entryLogs = <<>>
    /\ sockets = NoSockets

NextPayUpdate ==
    \/ AdminTransition /\ UNCHANGED monitors
    \/ AnyUpdatePayment /\ UNCHANGED monitors

SpecPayUpdate == InitPayUpdate /\ [][NextPayUpdate]_vars

\* C30: a tenant's update of a payment of their own stores it as Paid and
\* sets the paymentStatus of its booking to Paid; a tenant's update of
\* another tenant's payment is answered 403 and changes no payment and no
\* booking.
TenantPaysOwnPaymentOnly ==
    [][\A payment \in BagToSet(payments), u \in UserIds :
          UpdatePayment(payment, NoStatus, Tenant(u))
          => IF payment.userId = u
             THEN /\ response'.code = 200
                  /\ payments' = ReplacePayment(payments, payment, [payment EXCEPT !.status = "Paid"])
                  /\ bookings'[payment.bookingId].paymentStatus = "Paid"
             ELSE /\ response' = Res(PutPayment, 403, "Not authorized", <<>>)
                  /\ UNCHANGED <<payments, bookings>>]_vars

\* C30 witness: a tenant has paid: the payment and its booking are Paid, while
\* the payment of the other tenant is still Pending.
TenantPaid ==
    /\ response.route = PutPayment /\ response.code = 200
    /\ \E paid \in BagToSet(payments), other \in BagToSet(payments) :
          /\ paid.status = "Paid"
          /\ response.body = <<paid>>
          /\ bookings[paid.bookingId].paymentStatus = "Paid"
          /\ other.userId # paid.userId
          /\ other.status = "Pending"
          /\ bookings[other.bookingId].paymentStatus = "Pending"

(* ================= the notifier and its clients: C31 =================== *)

\* The clients connected to the notifier.
Connected == {s \in SocketIds : sockets[s].connected}

\* io.on('connection', (socket) => { console.log(...) })
Connect(s) ==
    /\ ~sockets[s].connected
    /\ sockets' = [sockets EXCEPT ![s].connected = TRUE]
    /\ UNCHANGED <<bookings, pgs, payments, now, response, emitted, roundTrip, confirmedIn,
                   inflight, entryLogs>>

\* socket.on('disconnect', () => { console.log(...) })
Disconnect(s) ==
    /\ sockets[s].connected
    /\ sockets' = [sockets EXCEPT ![s].connected = FALSE]
    /\ UNCHANGED <<bookings, pgs, payments, now, response, emitted, roundTrip, confirmedIn,
                   inflight, entryLogs>>

\* Variant: an emit that throws when no client is connected.
EmitThrowsUnheard(connected) == connected = {}

\* io.emit(event, payload) returns whoever is connected: the handlers call it
\* as a statement, await no acknowledgement and read nothing back.
EmitThrows(connected) == FALSE

\* What the clients receive of the events of a request: all of them when
\* connected, none otherwise.
Deliver(events) ==
    sockets' = [s \in SocketIds |->
                   [sockets[s] EXCEPT !.received = IF sockets[s].connected THEN events ELSE <<>>]]

\* A transition, a reconciliation or a bulk generation, as the handlers do
\* them: none reads the clients.
CoreRequest == AdminTransition \/ FixOccupancy \/ AdminGenerate

\* The same request with the notifier attached: an emit that threw would end
\* the handler in its catch block.
NotifiedRequest ==
    IF EmitThrows(Connected)
    THEN /\ response' = Res("", 500, "emit failed", <<>>)
         /\ emitted' = <<>>
         /\ UNCHANGED <<bookings, pgs, payments, now, sockets>>
    ELSE /\ CoreRequest
         /\ Deliver(emitted')

NextNotifier ==
    \/ NotifiedRequest /\ UNCHANGED <<roundTrip, confirmedIn, inflight, entryLogs>>
    \/ \E s \in SocketIds : Connect(s)
    \/ \E s \in SocketIds : Disconnect(s)

SpecNotifier == InitRoundTrip /\ [][NextNotifier]_vars

Outcome(res) ==
    IF res.code = 200 /\ Len(res.body) = 1 THEN "Updated"
    ELSE IF res.code = 404 THEN "NotFound"
    ELSE IF res.code = 403 THEN "Forbidden"
    ELSE IF res.code = 400 /\ res.message = PgFull THEN "Conflict"
    ELSE IF res.code = 400 THEN "ValidationError"
    ELSE "None"

Outcomes == {"Updated", "NotFound", "Forbidden", "Conflict", "ValidationError"}

\* The requests sent: by the admin and by a tenant, for a booking that exists
\* and for one that does not, with a status in and outside the enum, with
\* and without a checkInDate that casts.
SentRequests ==
    [id : BookingIds \cup {NoSuchBooking}, status : {"Confirmed", "Canceled", BogusStatus},
     date : {NoDate, BadDate}, user : {AdminUser, Tenant("u1")}]

\* The server's only slot: one request at a time.
OnlySlot == 1

\* A request arrives and waits for its handler.
Arrive(req) ==
    /\ Free(OnlySlot)
    /\ inflight' = (OnlySlot :> [pc |-> "received", request |-> req, outcome |-> "None"])
    /\ UNCHANGED <<bookings, pgs, payments, now, response, emitted, roundTrip, confirmedIn,
                   entryLogs, sockets>>

\* Variant: a handler that returns without a response when the Pg is full.
HandleUnlessFull ==
    /\ Standing(OnlySlot, "received")
    /\ LET req == inflight[OnlySlot].request
       IN  /\ TransitionBooking(req.id, req.status, req.date, req.user)
           /\ response'.message # PgFull
           /\ inflight' = (OnlySlot :> [pc |-> "done", request |-> req,
                                        outcome |-> Outcome(response')])
    /\ UNCHANGED <<roundTrip, confirmedIn, entryLogs, sockets>>

\* The handler runs from its first line to res.json(..) or res.status(..).json(..).
Handle ==
    /\ Standing(OnlySlot, "received")
    /\ LET req == inflight[OnlySlot].request
       IN  /\ TransitionBooking(req.id, req.status, req.date, req.user)
           /\ inflight' = (OnlySlot :> [pc |-> "done", request |-> req,
                                        outcome |-> Outcome(response')])
    /\ UNCHANGED <<roundTrip, confirmedIn, entryLogs, sockets>>

NextAnswer ==
    \/ \E req \in SentRequests : Arrive(req)
    \/ Handle

\* Every await of the handler resolves or rejects: a handler that can run, runs.
SpecAnswer == InitRoundTrip /\ [][NextAnswer]_vars /\ WF_vars(Handle)

\* C32: a transition request that arrived is answered, and its answer is the
\* updated booking or one of NotFound, Forbidden, Conflict, ValidationError.
EveryTransitionAnswered ==
    /\ [](Standing(OnlySlot, "done") => inflight[OnlySlot].outcome \in Outcomes)
    /\ Standing(OnlySlot, "received") ~> Standing(OnlySlot, "done")

\* C32 witness: a confirmation for a full Pg was answered with Conflict.
AnsweredConflict ==
    /\ Standing(OnlySlot, "done")
    /\ inflight[OnlySlot].outcome = "Conflict"
    /\ inflight[OnlySlot].request.status = "Confirmed"

(* ================== failures change nothing: C33 ======================= *)

\* C33: a transition that is answered with a failure, the validation error
\* of booking.save() included, leaves every booking, every Pg and every
\* payment as it was.
FailedTransitionChangesNothing ==
    [][\A id \in BookingIds, st \in RequestStatuses, d \in RequestDates, u \in Principals :
          (response'.code # 200 /\ TransitionBooking(id, st, d, u))
          => UNCHANGED <<bookings, pgs, payments>>]_vars

(* ============ transitions that involve no Confirmed: C34 =============== *)

\* C34: a transition that succeeds and either carries no status or has
\* neither an old nor a new status of Confirmed changes no Pg and no payment
\* and emits one bookingUpdated and nothing else.
UnconfirmedTransitionTouchesNoBed ==
    [][\A id \in BookingIds, st \in RequestStatuses, d \in {NoDate, GoodDate}, u \in Principals :
          ( /\ response'.code = 200
            /\ response'.route = PutBooking
            /\ \/ st = NoStatus
               \/ (st # "Confirmed" /\ bookings[id].status # "Confirmed")
            /\ TransitionBooking(id, st, d, u) )
          => /\ pgs' = pgs
             /\ payments' = payments
             /\ emitted' = <<BookingUpdated(id, bookings'[id].status)>>]_vars

\* C34 witness: a booking was rejected with a bookingUpdated as the only
\* notification while a bed of its Pg is occupied.
RejectedBesideOccupiedBed ==
    /\ TransitionSucceeded
    /\ \E id \in BookingIds :
          /\ emitted = <<BookingUpdated(id, "Rejected")>>
          /\ bookings[id].status = "Rejected"
          /\ pgs[PgOf(id)].occupiedBeds > 0

(* ============== deletions keep the counts right: C35 =================== *)

\* Every Pg's occupiedBeds is the number of its Confirmed bookings.
Consistent(bks, ps) == \A p \in DOMAIN ps : ps[p].occupiedBeds = ConfirmedCount(bks, p)

\* C35: when every Pg's occupiedBeds equals the number of its Confirmed
\* bookings, it still does after one booking, or all of them, were deleted.
DeletionKeepsConsistency ==
    [][(Consistent(bookings, pgs) /\ (AnyDeleteBooking \/ AnyDeleteAll))
          => Consistent(bookings', pgs')]_vars

\* C35 witness: a Confirmed booking was deleted, its bed freed, and the
\* counts are right.
ConfirmedBookingDeleted ==
    /\ response.route = DeleteBookingRoute /\ response.code = 200
    /\ Len(emitted) = 1 /\ emitted[1].event = "pgUpdated"
    /\ Consistent(bookings, pgs)

(* ============== one active booking per tenant: C36 ===================== *)

\* Requests to create a booking for any tenant, without a status in the body.
AnyTenantCreate ==
    \E id \in BookingIds, u \in UserIds, p \in PgIds : CreateBooking(id, u, p, NoStatus, NoRent)

\* Creations and transitions, one at a time.
NextTenancy ==
    \/ AnyTenantCreate /\ UNCHANGED monitors
    \/ AdminTransition /\ UNCHANGED monitors

SpecTenancy == InitEmpty /\ [][NextTenancy]_vars

\* The bookings of a tenant that are Pending or Confirmed.
ActiveBookings(userId) ==
    {b \in DOMAIN bookings : bookings[b].userId = userId
                             /\ bookings[b].status \in {"Pending", "Confirmed"}}

\* C36: every tenant has at most one booking that is Pending or Confirmed.
AtMostOneActiveBooking ==
    \A u \in UserIds : Cardinality(ActiveBookings(u)) <= 1

(* ===================== the startup sequence: C37 ======================= *)

\* Where startServer's position is kept.
StartSlot == 0

\* startServer before its first await resolved.
Starting == [id |-> "", pc |-> "connect", old |-> "", read |-> NotRead, pg |-> NoPg,
             emits |-> <<>>, code |-> 0, docs |-> <<>>, list |-> <<>>, wrote |-> <<>>]

\* The database as an earlier run left it: bookings Pending or Confirmed,
\* stored counts right or wrong.
InitStartup ==
    /\ bookings \in [BookingIds -> [userId : UserIds, pgId : PgIds,
                                    status : {"Pending", "Confirmed"}, rentAmount : {RentAmount}]]
    /\ \A b \in BookingIds : bookings[b].userId = UserOf(b)
    /\ bookings["b1"].pgId = "pg1"
    /\ pgs \in [PgIds -> [totalBeds : {MaxBeds}, occupiedBeds : 0..MaxBeds, price : {PgPrice}]]
    /\ payments = EmptyBag
    /\ now = 0
    /\ response = [route |-> "", code |-> 0, message |-> "", body |-> <<>>, date |-> 0]
    /\ emitted = <<>>
    /\ roundTrip = Idle
    /\ confirmedIn = {}
    /\ inflight = (StartSlot :> Starting)
    /\ entryLogs = <<>>
    /\ sockets = NoSockets

\* await mongoose.connect(...)
ConnectDb ==
    /\ Standing(StartSlot, "connect")
    /\ inflight' = [inflight EXCEPT ![StartSlot].pc = "seed"]
    /\ UNCHANGED <<bookings, pgs, payments, now, response, emitted, roundTrip, confirmedIn,
                   entryLogs, sockets>>

\* await seedUsers(); then recalculateOccupancy() up to its Pg.find()
SeedThenSweep ==
    /\ Standing(StartSlot, "seed")
    /\ inflight' = (StartSlot :> SweepAt(pgs, Found(PgOrder, DOMAIN pgs), <<>>))
    /\ UNCHANGED <<bookings, pgs, payments, now, response, emitted, roundTrip, confirmedIn,
                   entryLogs, sockets>>

\* server.listen(PORT, ...), once recalculateOccupancy() has returned
Listen ==
    /\ Standing(StartSlot, "sweepEmit")
    /\ inflight' = [inflight EXCEPT ![StartSlot].pc = "listening"]
    /\ UNCHANGED <<bookings, pgs, payments, now, response, emitted, roundTrip, confirmedIn,
                   entryLogs, sockets>>

\* Variant: the sequence that calls server.listen() without waiting for the
\* connection and the sweep.
ListeningFromStart == TRUE

\* The server accepts requests.
Listening == Standing(StartSlot, "listening")

\* A transition handled by a server that accepts requests.
ServedTransition ==
    /\ Listening
    /\ AdminTransition
    /\ UNCHANGED monitors

NextStartup ==
    \/ ConnectDb
    \/ SeedThenSweep
    \/ SweepCount(StartSlot)
    \/ SweepSave(StartSlot)
    \/ Listen
    \/ ServedTransition

SpecStartup == InitStartup /\ [][NextStartup]_vars

\* C37: a request has been handled only if startServer has reached
\* server.listen(), that is after the startup sweep returned.
NoRequestBeforeListen ==
    response.route # "" => Standing(StartSlot, "listening")

\* C37 witness: the startup sweep rewrote a stored count, the server then
\* listened and handled a transition.
ServedAfterStartupSweep ==
    /\ Standing(StartSlot, "listening")
    /\ inflight[StartSlot].wrote # <<>>
    /\ TransitionSucceeded

(* ==================== Verified stays Verified: C38 ===================== *)

\* C38: a tenant's update of a payment whose status is Verified leaves the
\* payment Verified.
VerifiedStaysVerified ==
    [][\A payment \in BagToSet(payments), u \in UserIds :
          (payment.status = "Verified" /\ UpdatePayment(payment, NoStatus, Tenant(u)))
          => payments' = payments]_vars

(* ======================== the gate log: C39 ============================ *)

MaxLogs == 5        \* entry logs written in a run

PostScan == "POST /api/gate/scan"

\* req.body.token: not sent, expired, signed for a user that does not exist,
\* or signed for a resident.
NoToken == [kind |-> "none", userId |-> ""]
ExpiredToken == [kind |-> "expired", userId |-> "u1"]
StrangerToken == [kind |-> "valid", userId |-> "u9"]
Tokens == {NoToken, ExpiredToken, StrangerToken} \cup {[kind |-> "valid", userId |-> u] : u \in UserIds}

\* The types of the logs of a resident, oldest first.
TypesOf(logs, userId) ==
    LET own == SelectSeq(logs, LAMBDA l : l.userId = userId)
    IN  [i \in 1..Len(own) |-> own[i].type]

\* Variant: every scan logged as an Entry.
ScanTypeAlwaysEntry(logs, userId) == "Entry"

\* EntryLog.findOne({ userId }).sort({ createdAt: -1 });
\* (lastLog && lastLog.type === 'Entry') ? 'Exit' : 'Entry'
ScanType(logs, userId) ==
    LET types == TypesOf(logs, userId)
    IN  IF types # <<>> /\ types[Len(types)] = "Entry" THEN "Exit" ELSE "Entry"

\* POST /api/gate/scan with the token, by user.
Scan(token, user) ==
    IF user.role # "caretaker" /\ user.role # "admin" THEN
        /\ response' = Res(PostScan, 401, "Not authorized as a caretaker", <<>>)
        /\ emitted' = <<>>
        /\ UNCHANGED <<bookings, pgs, payments, now, entryLogs>>
    ELSE IF token.kind = "none" THEN
        /\ response' = Res(PostScan, 400, "Token is required", <<>>)
        /\ emitted' = <<>>
        /\ UNCHANGED <<bookings, pgs, payments, now, entryLogs>>
    ELSE IF token.kind = "expired" THEN
        /\ response' = Res(PostScan, 400, "QR Code expired", <<>>)
        /\ emitted' = <<>>
        /\ UNCHANGED <<bookings, pgs, payments, now, entryLogs>>
    ELSE IF token.userId \notin UserIds THEN
        /\ response' = Res(PostScan, 404, "User not found", <<>>)
        /\ emitted' = <<>>
        /\ UNCHANGED <<bookings, pgs, payments, now, entryLogs>>
    ELSE
        LET entryLog == [userId |-> token.userId, type |-> ScanType(entryLogs, token.userId),
                         scannedBy |-> user.id]
        IN  /\ Len(entryLogs) < MaxLogs
            /\ entryLogs' = Append(entryLogs, entryLog)
            /\ emitted' = <<[event |-> "entryLogged", id |-> entryLog.userId, type |-> entryLog.type]>>
            /\ response' = Res(PostScan, 200, "logged successfully", <<entryLog>>)
            /\ UNCHANGED <<bookings, pgs, payments, now>>

AnyScan ==
    \E token \in Tokens, user \in {CaretakerUser, AdminUser, Tenant("u1")} : Scan(token, user)

NextGate == AnyScan /\ UNCHANGED <<roundTrip, confirmedIn, inflight, sockets>>

SpecGate == InitRoundTrip /\ [][NextGate]_vars

\* C39: the logs of every resident read Entry, Exit, Entry, ...: the first is
\* an Entry and each differs from the one before.
GateLogAlternates ==
    \A u \in UserIds :
        LET types == TypesOf(entryLogs, u)
        IN  \A i \in 1..Len(types) : types[i] = IF i % 2 = 1 THEN "Entry" ELSE "Exit"

\* C39 witness: a resident came in, went out and came in again while another
\* resident was logged in between.
CameBackIn ==
    /\ TypesOf(entryLogs, "u1") = <<"Entry", "Exit", "Entry">>
    /\ TypesOf(entryLogs, "u2") # <<>>
    /\ entryLogs[1].userId = "u1" /\ entryLogs[2].userId = "u2"

====
